---- MODULE Spec2Model ----
(***************************************************************************)
(* Session-driven PDF bot: the session store (session_manager.py), the     *)
(* conversation engine of bot.py, and the temporary files it creates.      *)
(* Time is counted in units of 30 minutes.                                 *)
(***************************************************************************)
EXTENDS Integers, Sequences, FiniteSets, TLC

VARIABLES
    sessions,   \* SessionManager: the user_sessions collection, chat_id -> document
    mem,        \* MemorySessionManager.sessions, chat_id -> dict
    now,        \* the clock (datetime.utcnow()), in half hours
    disk,       \* the temporary files that exist, as a set of paths
    nextPath,   \* number of temporary names handed out so far (names are unique)
    last,       \* record of the event handled last and of what its handler did
    call,       \* record of the session store call made last and of its result
    hist,       \* the update_session calls made since create_session
    th,         \* the threads of concurrent update_session calls
    stat,       \* of each temporary file on disk, its directory and its age
    given,      \* the input a function is applied to
    result      \* what the function returned, once applied

vars == <<sessions, mem, now, disk, nextPath, last, call, hist, th, stat, given, result>>

\* ---------------------------------------------------------------- bounds
MaxPaths == 3
MaxTime == 5
MaxCalls == 3
NumThreads == 2
MaxPages == 2

\* One conversation: conversations share nothing but the temporary directory
Chats == {1}

\* ------------------------------------------------------ program constants
\* timedelta(hours=1): two half hours
SESSION_TTL == 2
\* expireAfterSeconds=3600 of the TTL index on expires_at: two half hours
EXPIRE_AFTER == 2

\* BotState
WAITING == "waiting"
UPLOADING_MERGE == "uploading_merge"
UPLOADING_RENAME == "uploading_rename"
UPLOADING_WATERMARK == "uploading_watermark"
WAITING_FILENAME == "waiting_filename"
WAITING_WATERMARK_TEXT == "waiting_watermark_text"
WAITING_WATERMARK_POSITION == "waiting_watermark_position"
WAITING_WATERMARK_OPACITY == "waiting_watermark_opacity"

BotState == {WAITING, UPLOADING_MERGE, UPLOADING_RENAME, UPLOADING_WATERMARK,
             WAITING_FILENAME, WAITING_WATERMARK_TEXT,
             WAITING_WATERMARK_POSITION, WAITING_WATERMARK_OPACITY}

\* Python's None for an optional state argument
None == "None"
\* An optional dict argument: <<>> is None, <<d>> is the dict d
NoData == <<>>
Some(d) == <<d>>

\* A dict is a function from its keys; {} is the function with no keys
EmptyDict == [k \in {} |-> 0]

\* Merge with the existing data dropped
MergeOverwrite(a, b) == b

\* {**a, **b}: shallow merge, the keys of b win
Merge(a, b) ==
    [k \in (DOMAIN a) \cup (DOMAIN b) |-> IF k \in DOMAIN b THEN b[k] ELSE a[k]]

\* d with d[k] = v assigned
Assign(d, k, v) ==
    [x \in (DOMAIN d) \cup {k} |-> IF x = k THEN v ELSE d[x]]

\* ----------------------------------------------------- SessionManager
\* The value get_session gives for a chat with no document stands for None;
\* Has tells the two apart.
NoDoc ==
    [state |-> None, data |-> EmptyDict, created_at |-> 0, updated_at |-> 0,
     expires_at |-> 0]

Has(S, chat_id) == chat_id \in DOMAIN S

get_session(S, chat_id) == IF Has(S, chat_id) THEN S[chat_id] ELSE NoDoc

\* update_one({"chat_id": chat_id}, {"$set": session_data}, upsert=True)
create_session(S, chat_id, state, data, t) ==
    [c \in (DOMAIN S) \cup {chat_id} |->
        IF c = chat_id
        THEN [state |-> state,
              data |-> IF data = NoData THEN EmptyDict ELSE data[1],
              created_at |-> t, updated_at |-> t, expires_at |-> t + SESSION_TTL]
        ELSE S[c]]

\* The fields update_session sets, given the document get_session read
UpdateFields(existing, had, state, data, t) ==
    [updated_at |-> t,
     expires_at |-> t + SESSION_TTL,
     state |-> state,
     data |-> IF data = NoData THEN NoData
              ELSE IF had THEN Some(Merge(existing.data, data[1]))
              ELSE data]

\* update_one({"chat_id": chat_id}, {"$set": update_fields}): no upsert, so a
\* chat with no document is left without one
update_one(S, chat_id, f) ==
    IF ~Has(S, chat_id) THEN S
    ELSE [S EXCEPT ![chat_id] =
            [@ EXCEPT !.updated_at = f.updated_at,
                      !.expires_at = f.expires_at,
                      !.state = IF f.state = None THEN @ ELSE f.state,
                      !.data = IF f.data = NoData THEN @ ELSE f.data[1]]]

update_session(S, chat_id, state, data, t) ==
    update_one(S, chat_id,
               UpdateFields(get_session(S, chat_id), Has(S, chat_id), state, data, t))

\* delete_one({"chat_id": chat_id})
clear_session(S, chat_id) == [c \in (DOMAIN S) \ {chat_id} |-> S[c]]

\* ------------------------------------------------ MemorySessionManager
NoMemDoc == [state |-> None, data |-> EmptyDict, created_at |-> 0, updated_at |-> 0]

mem_get_session(M, chat_id) == IF Has(M, chat_id) THEN M[chat_id] ELSE NoMemDoc

mem_create_session(M, chat_id, state, data, t) ==
    [c \in (DOMAIN M) \cup {chat_id} |->
        IF c = chat_id
        THEN [state |-> state,
              data |-> IF data = NoData THEN EmptyDict ELSE data[1],
              created_at |-> t, updated_at |-> t]
        ELSE M[c]]

\* update_session with the new data put in place of the held data
mem_update_session_replace(M, chat_id, state, data, t) ==
    IF ~Has(M, chat_id) THEN M
    ELSE [M EXCEPT ![chat_id] =
            [@ EXCEPT !.state = IF state = None THEN @ ELSE state,
                      !.data = IF data = NoData THEN @ ELSE data[1],
                      !.updated_at = t]]

mem_update_session(M, chat_id, state, data, t) ==
    IF ~Has(M, chat_id) THEN M
    ELSE [M EXCEPT ![chat_id] =
            [@ EXCEPT !.state = IF state = None THEN @ ELSE state,
                      !.data = IF data = NoData THEN @ ELSE Merge(@, data[1]),
                      !.updated_at = t]]

mem_clear_session(M, chat_id) == [c \in (DOMAIN M) \ {chat_id} |-> M[c]]

\* ------------------------------------------------------------ strings
\* A text is a sequence of one-character strings.
IsSpace(ch) == ch = " "

RECURSIVE LStrip(_)
LStrip(s) == IF s # <<>> /\ IsSpace(Head(s)) THEN LStrip(Tail(s)) ELSE s

RECURSIVE RStrip(_)
RStrip(s) ==
    IF s # <<>> /\ IsSpace(s[Len(s)]) THEN RStrip(SubSeq(s, 1, Len(s) - 1)) ELSE s

\* str.strip()
Strip(s) == RStrip(LStrip(s))

DotPdf == <<".", "p", "d", "f">>

StartsWith(s, pre) == Len(s) >= Len(pre) /\ SubSeq(s, 1, Len(pre)) = pre

\* s.replace('.pdf', '')
RECURSIVE RemoveDotPdf(_)
RemoveDotPdf(s) ==
    IF s = <<>> THEN <<>>
    ELSE IF StartsWith(s, DotPdf) THEN RemoveDotPdf(SubSeq(s, Len(DotPdf) + 1, Len(s)))
    ELSE <<Head(s)>> \o RemoveDotPdf(Tail(s))

\* s[:n]
Take(s, n) == SubSeq(s, 1, IF Len(s) < n THEN Len(s) ELSE n)

\* safe_chars of sanitize_filename
safe_chars ==
    {"a", "b", "c", "d", "e", "f", "g", "h", "i", "j", "k", "l", "m", "n", "o",
     "p", "q", "r", "s", "t", "u", "v", "w", "x", "y", "z",
     "A", "B", "C", "D", "E", "F", "G", "H", "I", "J", "K", "L", "M", "N", "O",
     "P", "Q", "R", "S", "T", "U", "V", "W", "X", "Y", "Z",
     "0", "1", "2", "3", "4", "5", "6", "7", "8", "9", "-", "_", "."}

\* pat in s
Contains(s, pat) ==
    \E i \in 1..(Len(s) - Len(pat) + 1) : SubSeq(s, i, i + Len(pat) - 1) = pat

\* s.endswith(suf)
EndsWith(s, suf) ==
    Len(s) >= Len(suf) /\ SubSeq(s, Len(s) - Len(suf) + 1, Len(s)) = suf

\* ------------------------------------------------------------ PDFProcessor
Range(f) == {f[i] : i \in DOMAIN f}

\* merge_pdfs: the error it raises, or "ok". readable tells whether PdfMerger
\* can read every input.
\* The pages of a file: MaxPages of them, each known by its file and number
Pages(pdf_path) == [k \in 1..MaxPages |-> <<pdf_path, k>>]

\* for pdf_path in input_paths: merger.append(pdf_path)
RECURSIVE merger_append(_)
merger_append(input_paths) ==
    IF input_paths = <<>> THEN <<>>
    ELSE Pages(Head(input_paths)) \o merger_append(Tail(input_paths))

merge_pdfs(input_paths, files, readable) ==
    IF Len(input_paths) < 2 THEN "ValueError"
    ELSE IF \E i \in DOMAIN input_paths : input_paths[i] \notin files
         THEN "MergeFailedNotFound"
    ELSE IF ~readable THEN "MergeFailed"
    ELSE "ok"

\* --------------------------------------------------------------- bot.py
\* The directories temporary files are made in: temp_manager.temp_dir
\* (dir=temp_manager.temp_dir) and the system's default (no dir argument)
TEMP_DIR == "temp_dir"
SYSTEM_TMP == "system_tmp"

\* What one handler run does: the collection and the files it leaves, the
\* temporary names it used, the documents it sent (sendFile), the merge_pdfs
\* and add_watermark calls it made, the kind of its reply, the call that
\* raised, and whether its output file is made in temp_dir (tmp).
Eff(S, D, n, sf, mg, st, rp, out, up) ==
    [S |-> S, D |-> D, n |-> n, sendFile |-> sf, merged |-> mg, stamped |-> st,
     reply |-> rp, out |-> out, up |-> up, name |-> <<>>, raised |-> "none",
     tmp |-> FALSE]

\* A reply that loses the sessions
ReplyForgets(rp) == Eff(<<>>, disk, nextPath, 0, <<>>, <<>>, rp, 0, 0)

\* A handler that only replies
Reply(rp) == Eff(sessions, disk, nextPath, 0, <<>>, <<>>, rp, 0, 0)

\* A handler that updates the session and replies
Updated(S, rp) == Eff(S, disk, nextPath, 0, <<>>, <<>>, rp, 0, 0)

\* The except branch with the session dropped
RaisedSessionLost(c, by, rp, D, n, mg, st) ==
    [Eff(clear_session(sessions, c), D, n, 0, mg, st, rp, n, 0) EXCEPT !.raised = by]

\* except Exception as e: the call named by raised the error inside the try
\* block, after the output file n was created; the error is reported and
\* nothing else is done
Raised(c, by, rp, D, n, mg, st) ==
    [Eff(sessions, D, n, 0, mg, st, rp, n, 0) EXCEPT !.raised = by]

\* /start. sent: bot.send_message went through (it raises otherwise, before
\* the session is touched)
send_welcome(c, sent) ==
    IF sent
    THEN Updated(update_session(sessions, c, WAITING, NoData, now), "menu")
    ELSE Reply("raised")

\* /cancel
cancel_operation(c) ==
    Updated(update_session(sessions, c, WAITING, NoData, now), "cancelled")

\* handle_merge_start without the data patch
handle_merge_start_no_files(c) ==
    Updated(update_session(sessions, c, UPLOADING_MERGE, NoData, now), "merge_mode")

handle_merge_start(c) ==
    Updated(update_session(sessions, c, UPLOADING_MERGE, Some([files |-> <<>>]), now),
           "merge_mode")

handle_rename_start(c) ==
    Updated(update_session(sessions, c, UPLOADING_RENAME, NoData, now), "rename_mode")

handle_watermark_start(c) ==
    Updated(update_session(sessions, c, UPLOADING_WATERMARK, NoData, now),
           "watermark_mode")

handle_clear_session(c) ==
    Updated(update_session(sessions, c, WAITING, Some(EmptyDict), now), "cleared")

\* The check with the threshold off by one
TooFewOffByOne(files) == Len(files) < 1

\* len(files) < 2
TooFew(files) == Len(files) < 2

\* readable: PdfMerger can read the inputs; sent: bot.send_document went through
handle_merge_confirm(c, readable, sent) ==
    LET session == get_session(sessions, c) IN
    IF ~Has(sessions, c) \/ "files" \notin DOMAIN session.data
    THEN Reply("no_files")
    ELSE LET files == session.data.files
             output_path == nextPath + 1
             withOutput == disk \cup {output_path}
             res == merge_pdfs(files, withOutput, readable)
         IN  IF TooFew(files) THEN Reply("need_two")
             ELSE IF res # "ok"
             THEN Raised(c, "merge_pdfs", "merge_error", withOutput, output_path,
                         <<files>>, <<>>)
             ELSE IF ~sent
             THEN Raised(c, "send_document", "merge_error", withOutput, output_path,
                         <<files>>, <<>>)
             ELSE Eff(update_session(sessions, c, WAITING, Some(EmptyDict), now),
                      disk \ Range(files), output_path, 1, <<files>>, <<>>,
                      "merged", output_path, 0)

handle_watermark_position(c, position) ==
    LET session == get_session(sessions, c) IN
    IF Has(sessions, c)
    THEN Updated(update_session(sessions, c, None,
                               Some(Assign(session.data, "position", position)), now),
                "ask_opacity")
    ELSE Reply("ask_opacity")

\* renders: add_watermark can stamp the input
process_watermark(c, opacity, renders, sent) ==
    LET session == get_session(sessions, c)
        data == session.data
    IN  IF ~Has(sessions, c) THEN Reply("expired")
        ELSE IF ~({"file_path", "watermark_text", "position"} \subseteq DOMAIN data)
        THEN Reply("missing_parameters")
        ELSE IF data.file_path \notin disk THEN Reply("file_not_found")
        ELSE LET output_path == nextPath + 1
                 stamp == [input_path |-> data.file_path, text |-> data.watermark_text,
                          position |-> data.position, opacity |-> opacity]
             IN  IF ~renders
                 THEN Raised(c, "add_watermark", "watermark_error",
                             disk \cup {output_path}, output_path, <<>>, <<stamp>>)
                 ELSE IF ~sent
                 THEN Raised(c, "send_document", "watermark_error",
                             disk \cup {output_path}, output_path, <<>>, <<stamp>>)
                 ELSE Eff(update_session(sessions, c, WAITING, Some(EmptyDict), now),
                          disk \ {data.file_path}, output_path, 1, <<>>, <<stamp>>,
                          "watermarked", output_path, 0)

\* The opacity buttons: op_0.3, op_0.5, op_0.7, op_0.9 (as tenths)
Opacities == {3, 5, 7, 9}
\* op_custom, which is no number
OpCustom == 0

\* float('custom') raises ValueError, which handle_callback_query catches
handle_watermark_opacity(c, op, renders, sent) ==
    IF op \notin Opacities THEN Reply("callback_error")
    ELSE process_watermark(c, op, renders, sent)

Positions == {"center", "top", "bottom", "diagonal"}

Tokens == {"merge", "rename", "watermark", "clear", "confirm_merge", "pos", "op", "other"}

\* arg: the position of a pos_ token, the opacity of an op_ token
handle_callback_query(c, token, arg, ok, sent) ==
    CASE token = "merge" -> handle_merge_start(c)
      [] token = "rename" -> handle_rename_start(c)
      [] token = "watermark" -> handle_watermark_start(c)
      [] token = "clear" -> handle_clear_session(c)
      [] token = "confirm_merge" -> handle_merge_confirm(c, ok, sent)
      [] token = "pos" -> handle_watermark_position(c, arg)
      [] token = "op" -> handle_watermark_opacity(c, arg, ok, sent)
      [] OTHER -> Reply("unknown_command")

\* The upload replacing the list
AddFileAlone(data, file_path) == Assign(data, "files", <<file_path>>)

\* The file put in front of those held
AddFileFirst(data, file_path) ==
    Assign(data, "files",
           <<file_path>> \o (IF "files" \in DOMAIN data THEN data.files ELSE <<>>))

\* if 'files' not in data: data['files'] = []; data['files'].append(file_path)
AddFile(data, file_path) ==
    Assign(data, "files",
           Append(IF "files" \in DOMAIN data THEN data.files ELSE <<>>, file_path))

handle_merge_file(c, file_path) ==
    LET session == get_session(sessions, c)
        data == AddFile(session.data, file_path)
    IN  IF ~Has(sessions, c)
        THEN Eff(sessions, disk \cup {file_path}, file_path, 0, <<>>, <<>>,
                 "expired", 0, file_path)
        ELSE Eff(update_session(sessions, c, None, Some(data), now),
                 disk \cup {file_path}, file_path, 0, <<>>, <<>>,
                 "added", 0, file_path)

\* handle_rename_file without the state
handle_rename_file_no_state(c, file_path) ==
    Eff(update_session(sessions, c, None, Some([file_path |-> file_path]), now),
        disk \cup {file_path}, file_path, 0, <<>>, <<>>, "ask_filename", 0, file_path)

handle_rename_file(c, file_path) ==
    Eff(update_session(sessions, c, WAITING_FILENAME,
                       Some([file_path |-> file_path]), now),
        disk \cup {file_path}, file_path, 0, <<>>, <<>>, "ask_filename", 0, file_path)

handle_watermark_file(c, file_path) ==
    Eff(update_session(sessions, c, WAITING_WATERMARK_TEXT,
                       Some([file_path |-> file_path]), now),
        disk \cup {file_path}, file_path, 0, <<>>, <<>>, "ask_text", 0, file_path)

\* The uploads told apart by what handle_document does with them: get_file
\* raises, the name is no .pdf name, the declared size is over MAX_FILE_SIZE,
\* download_file raises, or the file is downloaded
Docs == {"no_file_info", "not_pdf", "too_large", "no_download", "pdf"}

\* The upload turned away with its file left on disk
RejectUploadKept(file_path) ==
    Eff(sessions, disk \cup {file_path}, file_path, 0, <<>>, <<>>, "select_option",
        0, file_path)

\* else: reply "Please select an option from the menu first." and
\* os.unlink(file_path): the file written is deleted again
RejectUpload(file_path) ==
    Eff(sessions, disk, file_path, 0, <<>>, <<>>, "select_option", 0, file_path)

\* A name an earlier file had
ReusedName(n) == IF n = 0 THEN 1 ELSE n

\* tempfile.NamedTemporaryFile(suffix='.pdf', delete=False, dir=temp_dir):
\* a file under a name no file had, n names having been given out
NamedTemporaryFile(n) == n + 1

handle_document(c, doc) ==
    LET state == IF Has(sessions, c) THEN get_session(sessions, c).state ELSE WAITING
        file_path == NamedTemporaryFile(nextPath)
    IN  CASE doc = "no_file_info" -> Reply("raised")
          [] doc = "not_pdf" -> Reply("pdf_only")
          [] doc = "too_large" -> Reply("too_large")
          [] doc = "no_download" -> Reply("file_error")
          [] OTHER ->
                IF state = UPLOADING_MERGE THEN handle_merge_file(c, file_path)
                ELSE IF state = UPLOADING_RENAME THEN handle_rename_file(c, file_path)
                ELSE IF state = UPLOADING_WATERMARK
                THEN handle_watermark_file(c, file_path)
                ELSE RejectUpload(file_path)

handle_rename_filename(c, text, session, sent) ==
    LET has_path == "file_path" \in DOMAIN session.data
        new_name == Strip(RemoveDotPdf(text))
        output_path == nextPath + 1
    IN  IF ~has_path THEN Reply("file_not_found")
        ELSE IF session.data.file_path \notin disk THEN Reply("file_not_found")
        ELSE IF new_name = <<>> THEN Reply("invalid_filename")
        ELSE IF ~sent
        THEN Raised(c, "send_document", "rename_error", disk \cup {output_path},
                    output_path, <<>>, <<>>)
        ELSE [Eff(update_session(sessions, c, WAITING, Some(EmptyDict), now),
                  disk \ {session.data.file_path}, output_path, 1, <<>>, <<>>,
                  "renamed", output_path, 0)
                EXCEPT !.name = new_name \o DotPdf]

\* text[:100]
MAX_WATERMARK_TEXT == 100

handle_watermark_text(c, text, session) ==
    IF text = <<>> THEN Reply("need_text")
    ELSE Updated(update_session(sessions, c, None,
                    Some(Assign(session.data, "watermark_text",
                                Take(text, MAX_WATERMARK_TEXT))), now),
                "ask_position")

handle_text(c, raw, sent) ==
    LET text == Strip(raw)
        session == get_session(sessions, c)
    IN  IF ~Has(sessions, c) THEN Reply("expired_start")
        ELSE IF session.state = WAITING_FILENAME
        THEN handle_rename_filename(c, text, session, sent)
        ELSE IF session.state = WAITING_WATERMARK_TEXT
        THEN handle_watermark_text(c, text, session)
        ELSE Reply("select_option")

\* The text messages tried
TextInputs == {<<"a">>, <<" ">>, <<".", "p", "d", "f">>, <<".", ".", "/", "b">>}

\* ------------------------------------------------- the engine of bot.py
\* One event handled from start to end: the handler's effect is applied and
\* recorded, with the session as it was before.
HandleEvent(ev, c, e) ==
    /\ e.n <= MaxPaths
    /\ sessions' = e.S
    /\ disk' = e.D
    /\ nextPath' = e.n
    /\ last' = [ev |-> ev, chat |-> c, had |-> Has(sessions, c),
                pre |-> get_session(sessions, c),
                sendFile |-> e.sendFile, merged |-> e.merged, stamped |-> e.stamped,
                reply |-> e.reply, out |-> e.out, up |-> e.up, name |-> e.name,
                raised |-> e.raised]
    /\ stat' = [p \in e.D |->
                    IF p \in disk THEN stat[p]
                    ELSE [dir |-> IF p = e.up \/ e.tmp THEN TEMP_DIR ELSE SYSTEM_TMP,
                          age |-> 0]]
    /\ UNCHANGED <<mem, now, call, hist, th>>

Handle(ev, c, e) == HandleEvent(ev, c, e) /\ UNCHANGED <<given, result>>

OnStart == \E c \in Chats, sent \in BOOLEAN : Handle("start", c, send_welcome(c, sent))

OnCancel == \E c \in Chats : Handle("cancel", c, cancel_operation(c))

\* The menu buttons that take no argument
OnMenu ==
    \E c \in Chats, token \in {"merge", "rename", "watermark", "clear", "other"} :
        Handle(token, c, handle_callback_query(c, token, 0, TRUE, TRUE))

OnConfirmMerge ==
    \E c \in Chats, readable \in BOOLEAN, sent \in BOOLEAN :
        Handle("confirm_merge", c,
               handle_callback_query(c, "confirm_merge", 0, readable, sent))

\* The positions and opacities tried
PositionInputs == {"center", "diagonal"}
OpacityInputs == {3, 9, OpCustom}

OnPosition ==
    \E c \in Chats, position \in PositionInputs :
        Handle("pos", c, handle_callback_query(c, "pos", position, TRUE, TRUE))

OnOpacity ==
    \E c \in Chats, op \in OpacityInputs, renders \in BOOLEAN, sent \in BOOLEAN :
        Handle("op", c, handle_callback_query(c, "op", op, renders, sent))

OnDocument == \E c \in Chats, doc \in Docs : Handle(doc, c, handle_document(c, doc))

OnText ==
    \E c \in Chats, raw \in TextInputs, sent \in BOOLEAN :
        Handle("text", c, handle_text(c, raw, sent))

NoEvent ==
    [ev |-> "none", chat |-> 0, had |-> FALSE, pre |-> NoDoc,
     sendFile |-> 0, merged |-> <<>>, stamped |-> <<>>, reply |-> "none",
     out |-> 0, up |-> 0, name |-> <<>>, raised |-> "none"]

NoCall ==
    [op |-> "none", chat |-> 0, at |-> 0, had |-> FALSE, memHad |-> FALSE,
     state |-> None, data |-> NoData, doc |-> NoDoc, memDoc |-> NoMemDoc]

NoHist == [created |-> FALSE, state |-> None, data |-> EmptyDict, calls |-> <<>>]

\* The collection holds, for some chats, a session as create_session made it
Init ==
    /\ \E held \in SUBSET Chats :
          sessions = [c \in held |-> create_session(<<>>, c, WAITING, NoData, 0)[c]]
    /\ mem = <<>>
    /\ now = 0
    /\ disk = {}
    /\ nextPath = 0
    /\ last = NoEvent
    /\ call = NoCall
    /\ hist = NoHist
    /\ th = <<>>
    /\ stat = <<>>
    /\ given = <<>>
    /\ result = <<>>

Next ==
    \/ OnStart
    \/ OnCancel
    \/ OnMenu
    \/ OnConfirmMerge
    \/ OnPosition
    \/ OnOpacity
    \/ OnDocument
    \/ OnText

Spec == Init /\ [][Next]_vars

\* --------------------------------- bot (12).py (src/unnamed/part_000)
\* The variant of the bot that creates the session on /start and deletes it
\* on cancel, clear and completion. session_manager is configured
\* (MONGODB_URI is set). Its handle_rename_start, handle_watermark_start,
\* handle_watermark_position, handle_merge_file, handle_rename_file and
\* handle_watermark_file make the calls that bot.py's make.

\* A float: a number in hundredths, an infinity or nan
Num(x) == [k |-> "num", x |-> x]
NaN == [k |-> "nan", x |-> 0]
Inf == [k |-> "inf", x |-> 0]
\* float() raising ValueError
ValueError == [k |-> "ValueError", x |-> 0]

DigitVal ==
    [ch \in {"0", "1", "2", "3", "4", "5", "6", "7", "8", "9"} |->
        CASE ch = "0" -> 0 [] ch = "1" -> 1 [] ch = "2" -> 2 [] ch = "3" -> 3
          [] ch = "4" -> 4 [] ch = "5" -> 5 [] ch = "6" -> 6 [] ch = "7" -> 7
          [] ch = "8" -> 8 [] OTHER -> 9]

\* The value of a string of digits
RECURSIVE Decimal(_)
Decimal(s) ==
    IF s = <<>> THEN 0 ELSE 10 * Decimal(SubSeq(s, 1, Len(s) - 1)) + DigitVal[s[Len(s)]]

\* float(text) for a stripped text: nan, inf, or an unsigned decimal with at
\* most two decimals; anything else the texts tried contain is no number
float(text) ==
    LET dots == {i \in DOMAIN text : text[i] = "."}
        digits == {i \in DOMAIN text : text[i] \in DOMAIN DigitVal}
        dot == IF dots = {} THEN Len(text) + 1 ELSE CHOOSE i \in dots : TRUE
        whole == SubSeq(text, 1, dot - 1)
        frac == Take(SubSeq(text, dot + 1, Len(text)) \o <<"0", "0">>, 2)
    IN  IF text = <<"n", "a", "n">> THEN NaN
        ELSE IF text = <<"i", "n", "f">> THEN Inf
        ELSE IF digits = {} \/ Cardinality(dots) > 1
                \/ dots \cup digits # DOMAIN text
        THEN ValueError
        ELSE Num(100 * Decimal(whole) + Decimal(frac))

\* a < b on floats: every comparison with nan is False
Less(a, b) ==
    /\ a.k # "nan"
    /\ b.k # "nan"
    /\ \/ a.k = "num" /\ b.k = "num" /\ a.x < b.x
       \/ a.k = "num" /\ b.k = "inf"

b12_send_welcome(c, sent) ==
    IF sent
    THEN Updated(create_session(sessions, c, WAITING, NoData, now), "menu")
    ELSE Reply("raised")

b12_cancel_operation(c) == Updated(clear_session(sessions, c), "cancelled")

b12_handle_merge_start(c) ==
    Updated(update_session(sessions, c, UPLOADING_MERGE, Some([files |-> <<>>]), now),
           "merge_mode")

b12_handle_clear_session(c) == Updated(clear_session(sessions, c), "cleared")

b12_handle_merge_confirm(c, readable, sent) ==
    LET session == get_session(sessions, c) IN
    IF ~Has(sessions, c) \/ "files" \notin DOMAIN session.data
    THEN Reply("no_files")
    ELSE LET files == session.data.files
             output_path == nextPath + 1
             withOutput == disk \cup {output_path}
             res == merge_pdfs(files, withOutput, readable)
         IN  IF TooFew(files) THEN Reply("need_two")
             ELSE IF res # "ok"
             THEN Raised(c, "merge_pdfs", "merge_error", withOutput, output_path,
                         <<files>>, <<>>)
             ELSE IF ~sent
             THEN Raised(c, "send_document", "merge_error", withOutput, output_path,
                         <<files>>, <<>>)
             ELSE Eff(clear_session(sessions, c), disk \ Range(files), output_path,
                      1, <<files>>, <<>>, "merged", output_path, 0)

b12_process_watermark(c, opacity, renders, sent) ==
    LET session == get_session(sessions, c)
        data == session.data
    IN  IF ~Has(sessions, c) THEN Reply("expired")
        ELSE IF ~({"file_path", "watermark_text", "position"} \subseteq DOMAIN data)
        THEN Reply("missing_parameters")
        ELSE IF data.file_path \notin disk THEN Reply("file_not_found")
        ELSE LET output_path == nextPath + 1
                 stamp == [input_path |-> data.file_path, text |-> data.watermark_text,
                          position |-> data.position, opacity |-> opacity]
             IN  IF ~renders
                 THEN [Raised(c, "add_watermark", "watermark_error",
                              disk \cup {output_path}, output_path, <<>>, <<stamp>>)
                         EXCEPT !.tmp = TRUE]
                 ELSE IF ~sent
                 THEN [Raised(c, "send_document", "watermark_error",
                              disk \cup {output_path}, output_path, <<>>, <<stamp>>)
                         EXCEPT !.tmp = TRUE]
                 ELSE Eff(clear_session(sessions, c), disk \ {data.file_path},
                          output_path, 1, <<>>, <<stamp>>, "watermarked",
                          output_path, 0)

\* callback_data.replace('op_', '') of the Custom button
Custom == <<"c", "u", "s", "t", "o", "m">>

\* op: the callback data after op_
b12_handle_watermark_opacity(c, op, renders, sent) ==
    IF op = Custom
    THEN Updated(update_session(sessions, c, WAITING_WATERMARK_OPACITY, NoData, now),
                "ask_custom")
    ELSE IF float(op) = ValueError THEN Reply("callback_error")
    ELSE b12_process_watermark(c, float(op), renders, sent)

b12_handle_callback_query(c, token, arg, ok, sent) ==
    CASE token = "merge" -> b12_handle_merge_start(c)
      [] token = "rename" -> handle_rename_start(c)
      [] token = "watermark" -> handle_watermark_start(c)
      [] token = "clear" -> b12_handle_clear_session(c)
      [] token = "confirm_merge" -> b12_handle_merge_confirm(c, ok, sent)
      [] token = "pos" -> handle_watermark_position(c, arg)
      [] token = "op" -> b12_handle_watermark_opacity(c, arg, ok, sent)
      [] OTHER -> Reply("ignored")

b12_handle_document(c, doc) ==
    LET state == IF Has(sessions, c) THEN get_session(sessions, c).state ELSE WAITING
        file_path == NamedTemporaryFile(nextPath)
    IN  CASE doc = "no_file_info" -> Reply("raised")
          [] doc = "not_pdf" -> Reply("pdf_only")
          [] doc = "too_large" -> Reply("too_large")
          [] doc = "no_download" -> Reply("file_error")
          [] OTHER ->
                IF state = UPLOADING_MERGE THEN handle_merge_file(c, file_path)
                ELSE IF state = UPLOADING_RENAME THEN handle_rename_file(c, file_path)
                ELSE IF state = UPLOADING_WATERMARK
                THEN handle_watermark_file(c, file_path)
                ELSE Eff(sessions, disk, file_path, 0, <<>>, <<>>, "select_option",
                         0, file_path)

b12_handle_rename_filename(c, text, session, sent) ==
    LET has_path == "file_path" \in DOMAIN session.data
        new_name == Strip(RemoveDotPdf(text))
        output_path == nextPath + 1
    IN  IF ~has_path THEN Reply("file_not_found")
        ELSE IF session.data.file_path \notin disk THEN Reply("file_not_found")
        ELSE IF new_name = <<>> THEN Reply("invalid_filename")
        ELSE IF ~sent
        THEN [Raised(c, "send_document", "rename_error", disk \cup {output_path},
                     output_path, <<>>, <<>>)
                EXCEPT !.tmp = TRUE]
        ELSE [Eff(clear_session(sessions, c), disk \ {session.data.file_path},
                  output_path, 1, <<>>, <<>>, "renamed", output_path, 0)
                EXCEPT !.name = new_name \o DotPdf]

b12_handle_watermark_text(c, text, session) ==
    IF text = <<>> THEN Reply("need_text")
    ELSE Updated(update_session(sessions, c, None,
                    Some(Assign(session.data, "watermark_text", text)), now),
                "ask_position")

\* The bounds of a custom opacity, in hundredths: 0.1 and 1.0
MIN_OPACITY == 10
MAX_OPACITY == 100

b12_handle_watermark_custom_opacity(c, text, renders, sent) ==
    LET opacity == float(text) IN
    IF opacity = ValueError THEN Reply("invalid_opacity")
    ELSE IF Less(opacity, Num(MIN_OPACITY)) \/ Less(Num(MAX_OPACITY), opacity)
    THEN Reply("invalid_opacity")
    ELSE b12_process_watermark(c, opacity, renders, sent)

\* ok: the transform of a custom opacity succeeds; sent: so does the send
b12_handle_text(c, raw, ok, sent) ==
    LET text == Strip(raw)
        session == get_session(sessions, c)
    IN  IF ~Has(sessions, c) THEN Reply("expired_start")
        ELSE IF session.state = WAITING_FILENAME
        THEN b12_handle_rename_filename(c, text, session, sent)
        ELSE IF session.state = WAITING_WATERMARK_TEXT
        THEN b12_handle_watermark_text(c, text, session)
        ELSE IF session.state = WAITING_WATERMARK_OPACITY
        THEN b12_handle_watermark_custom_opacity(c, text, ok, sent)
        ELSE Reply("select_option")

\* The engine of bot (12).py: it starts with no session stored
On12Start ==
    \E c \in Chats, sent \in BOOLEAN : Handle("start", c, b12_send_welcome(c, sent))

On12Cancel == \E c \in Chats : Handle("cancel", c, b12_cancel_operation(c))

On12Menu ==
    \E c \in Chats, token \in {"merge", "rename", "watermark", "clear", "help"} :
        Handle(token, c, b12_handle_callback_query(c, token, 0, TRUE, TRUE))

On12ConfirmMerge ==
    \E c \in Chats, readable \in BOOLEAN, sent \in BOOLEAN :
        Handle("confirm_merge", c,
               b12_handle_callback_query(c, "confirm_merge", 0, readable, sent))

On12Position ==
    \E c \in Chats, position \in PositionInputs :
        Handle("pos", c, b12_handle_callback_query(c, "pos", position, TRUE, TRUE))

\* The opacity buttons tried: 0.3 and Custom
OpacityButtons == {<<"0", ".", "3">>, Custom}

On12Opacity ==
    \E c \in Chats, op \in OpacityButtons, renders \in BOOLEAN, sent \in BOOLEAN :
        Handle("op", c, b12_handle_callback_query(c, "op", op, renders, sent))

On12Document ==
    \E c \in Chats, doc \in Docs : Handle(doc, c, b12_handle_document(c, doc))

\* The text messages tried: a word, a blank, and the opacities 0.5, 1.5, nan
TextInputs12 ==
    {<<"a">>, <<" ">>, <<"0", ".", "5">>, <<"1", ".", "5">>, <<"n", "a", "n">>}

On12Text ==
    \E c \in Chats, raw \in TextInputs12, ok \in BOOLEAN, sent \in BOOLEAN :
        Handle("text", c, b12_handle_text(c, raw, ok, sent))

Init12 ==
    /\ sessions = <<>>
    /\ mem = <<>>
    /\ now = 0
    /\ disk = {}
    /\ nextPath = 0
    /\ last = NoEvent
    /\ call = NoCall
    /\ hist = NoHist
    /\ th = <<>>
    /\ stat = <<>>
    /\ given = <<>>
    /\ result = <<>>

Next12 ==
    \/ On12Start
    \/ On12Cancel
    \/ On12Menu
    \/ On12ConfirmMerge
    \/ On12Position
    \/ On12Opacity
    \/ On12Document
    \/ On12Text

Spec12 == Init12 /\ [][Next12]_vars

\* ------------------------------------------- the session stores, called
\* in sequence: every call goes to a SessionManager and to a
\* MemorySessionManager, and the clock moves between calls.
StateArgs == {None, WAITING, UPLOADING_MERGE}

DataArgs ==
    {NoData, Some(EmptyDict), Some([file_path |-> 1]), Some([file_path |-> 2]),
     Some([position |-> "center"])}

Called(op, c, state, data) ==
    call' = [op |-> op, chat |-> c, at |-> now, had |-> Has(sessions, c),
             memHad |-> Has(mem, c), state |-> state, data |-> data,
             doc |-> get_session(sessions, c), memDoc |-> mem_get_session(mem, c)]

\* create_session, update_session and clear_session on both stores
Create(c, state, data) ==
    /\ sessions' = create_session(sessions, c, state, data, now)
    /\ mem' = mem_create_session(mem, c, state, data, now)
    /\ Called("create", c, state, data)
    /\ UNCHANGED <<now, disk, nextPath, last, th, stat, given, result>>

Update(c, state, data) ==
    /\ sessions' = update_session(sessions, c, state, data, now)
    /\ mem' = mem_update_session(mem, c, state, data, now)
    /\ Called("update", c, state, data)
    /\ UNCHANGED <<now, disk, nextPath, last, th, stat, given, result>>

Clear(c) ==
    /\ sessions' = clear_session(sessions, c)
    /\ mem' = mem_clear_session(mem, c)
    /\ Called("clear", c, None, NoData)
    /\ UNCHANGED <<now, disk, nextPath, last, th, stat, given, result>>

ApiCreate ==
    \E c \in Chats, state \in StateArgs \ {None}, data \in DataArgs :
        Create(c, state, data) /\ UNCHANGED hist

ApiUpdate ==
    \E c \in Chats, state \in StateArgs, data \in DataArgs :
        Update(c, state, data) /\ UNCHANGED hist

ApiClear == \E c \in Chats : Clear(c) /\ UNCHANGED hist

ApiGet ==
    \E c \in Chats :
        /\ Called("get", c, None, NoData)
        /\ UNCHANGED <<sessions, mem, now, disk, nextPath, last, hist, th, stat, given, result>>

\* SessionManager.cleanup_expired_sessions: delete_many(expires_at < utcnow())
cleanup_expired_sessions(S, t) ==
    [c \in {x \in DOMAIN S : ~(S[x].expires_at < t)} |-> S[c]]

\* max_age_hours: int = 1, in half hours
MAX_AGE_HOURS == 2

\* MemorySessionManager.cleanup_expired_sessions
mem_cleanup_expired_sessions(M, t) ==
    [c \in {x \in DOMAIN M : ~(M[x].updated_at < t - MAX_AGE_HOURS)} |-> M[c]]

ApiCleanup ==
    /\ sessions' = cleanup_expired_sessions(sessions, now)
    /\ mem' = mem_cleanup_expired_sessions(mem, now)
    /\ Called("cleanup", 0, None, NoData)
    /\ UNCHANGED <<now, disk, nextPath, last, hist, th, stat, given, result>>

\* The TTL index on expires_at: the database removes a document once
\* expireAfterSeconds have passed since its expires_at
TTLIndex(S, t) ==
    [c \in {x \in DOMAIN S : t < S[x].expires_at + EXPIRE_AFTER} |-> S[c]]

TTLMonitor ==
    /\ TTLIndex(sessions, now) # sessions
    /\ sessions' = TTLIndex(sessions, now)
    /\ UNCHANGED <<mem, now, disk, nextPath, last, call, hist, th, stat, given, result>>

Tick ==
    /\ now < MaxTime
    /\ now' = now + 1
    /\ UNCHANGED <<sessions, mem, disk, nextPath, last, call, hist, th, stat, given, result>>

StoreInit ==
    /\ sessions = <<>>
    /\ mem = <<>>
    /\ now = 0
    /\ disk = {}
    /\ nextPath = 0
    /\ last = NoEvent
    /\ call = NoCall
    /\ hist = NoHist
    /\ th = <<>>
    /\ stat = <<>>
    /\ given = <<>>
    /\ result = <<>>

StoreNext ==
    \/ ApiCreate
    \/ ApiUpdate
    \/ ApiClear
    \/ ApiGet
    \/ ApiCleanup
    \/ TTLMonitor
    \/ Tick

SpecStore == StoreInit /\ [][StoreNext]_vars

\* ------------------------------------------- the two stores side by side
\* The four calls go to both stores while the clock moves. `given` stays
\* empty as long as every held session has been touched within
\* timedelta(hours=1) of the present; the first tick past the expires_at of
\* a held session marks the run as late. The TTL index removes documents
\* only on late runs.
Late == <<"late">>

SameTick ==
    /\ now < MaxTime
    /\ now' = now + 1
    /\ given' = IF \/ \E c \in DOMAIN sessions : sessions[c].expires_at < now + 1
                   \/ \E c \in DOMAIN mem : mem[c].updated_at + SESSION_TTL < now + 1
                THEN Late ELSE given
    /\ UNCHANGED <<sessions, mem, disk, nextPath, last, call, hist, th, stat, result>>

SameNext ==
    \/ ApiCreate
    \/ ApiUpdate
    \/ ApiClear
    \/ ApiGet
    \/ TTLMonitor
    \/ SameTick

SpecSame == StoreInit /\ [][SameNext]_vars

\* ------------------------------- a series of update_session calls on one
\* session, recorded call by call since its create_session
FoldCreate ==
    \E c \in Chats, state \in {WAITING}, data \in {NoData, Some([file_path |-> 1])} :
        /\ Create(c, state, data)
        /\ hist' = [created |-> TRUE, state |-> state,
                    data |-> IF data = NoData THEN EmptyDict ELSE data[1],
                    calls |-> <<>>]

FoldUpdate ==
    \E c \in Chats, state \in StateArgs, data \in DataArgs :
        /\ Len(hist.calls) < MaxCalls
        /\ Update(c, state, data)
        /\ hist' = [hist EXCEPT !.calls = Append(@, [state |-> state, data |-> data])]

FoldNext == FoldCreate \/ FoldUpdate

SpecFold == StoreInit /\ [][FoldNext]_vars

\* ------------------------------ update_session called by several threads
\* at once for one chat: each call reads the document (get_session), merges
\* its patch into what it read, and writes the result (update_one).
Threads == 1..NumThreads

\* The chat all the threads update
ConcChat == CHOOSE c \in Chats : TRUE

ThreadPatches ==
    {[file_path |-> 1], [file_path |-> 2], [position |-> "center"],
     [watermark_text |-> <<"a">>]}

Idle == [pc |-> "idle", patch |-> EmptyDict, existing |-> NoDoc, had |-> FALSE]

ConcCall(t) ==
    /\ th[t].pc = "idle"
    /\ \E patch \in ThreadPatches :
          th' = [th EXCEPT ![t] = [@ EXCEPT !.pc = "read", !.patch = patch]]
    /\ UNCHANGED <<sessions, mem, now, disk, nextPath, last, call, hist, stat, given, result>>

ConcRead(t) ==
    /\ th[t].pc = "read"
    /\ th' = [th EXCEPT ![t] = [@ EXCEPT !.pc = "write",
                                        !.existing = get_session(sessions, ConcChat),
                                        !.had = Has(sessions, ConcChat)]]
    /\ UNCHANGED <<sessions, mem, now, disk, nextPath, last, call, hist, stat, given, result>>

ConcWrite(t) ==
    /\ th[t].pc = "write"
    /\ sessions' = update_one(sessions, ConcChat,
                       UpdateFields(th[t].existing, th[t].had, None,
                                    Some(th[t].patch), now))
    /\ th' = [th EXCEPT ![t] = [@ EXCEPT !.pc = "done"]]
    /\ UNCHANGED <<mem, now, disk, nextPath, last, call, hist, stat, given, result>>

ConcInit ==
    /\ \E data \in {NoData, Some([files |-> <<>>])} :
          sessions = create_session(<<>>, ConcChat, WAITING, data, 0)
    /\ mem = <<>>
    /\ now = 0
    /\ disk = {}
    /\ nextPath = 0
    /\ last = NoEvent
    /\ call = NoCall
    /\ hist = NoHist
    /\ th = [t \in Threads |-> Idle]
    /\ stat = <<>>
    /\ given = <<>>
    /\ result = <<>>

ConcNext == \E t \in Threads : ConcCall(t) \/ ConcRead(t) \/ ConcWrite(t)

SpecConc == ConcInit /\ [][ConcNext]_vars

\* ------------------ one completing event of bot.py delivered twice: the
\* two handler runs (worker threads of the bot) interleave between the
\* calls they make. A run reads the session, creates the output file and
\* calls the transform, sends the document, then deletes the files and
\* updates the session.
Deliveries == {1, 2}

\* The chat the event is for
DupChat == CHOOSE c \in Chats : TRUE

NotDelivered ==
    [pc |-> "get", ev |-> "none", session |-> NoDoc, out |-> 0, calls |-> 0,
     sendFile |-> 0, reply |-> "none"]

\* The inputs of the transform a run read from the session
DupInputs(r) ==
    IF r.ev = "confirm_merge" THEN Range(r.session.data.files)
    ELSE {r.session.data.file_path}

\* session = session_manager.get_session(chat_id) and the checks before try
DupGet(t) ==
    /\ th[t].pc = "get"
    /\ LET session == get_session(sessions, DupChat)
           stop == IF th[t].ev = "confirm_merge"
                   THEN IF ~Has(sessions, DupChat) \/ "files" \notin DOMAIN session.data
                        THEN "no_files"
                        ELSE IF TooFew(session.data.files) THEN "need_two" ELSE "go"
                   ELSE IF ~Has(sessions, DupChat) THEN "expired"
                        ELSE IF ~({"file_path", "watermark_text", "position"}
                                    \subseteq DOMAIN session.data)
                        THEN "missing_parameters"
                        ELSE IF session.data.file_path \notin disk
                        THEN "file_not_found" ELSE "go"
       IN  th' = [th EXCEPT ![t] =
                    IF stop = "go" THEN [@ EXCEPT !.pc = "transform", !.session = session]
                    ELSE [@ EXCEPT !.pc = "done", !.reply = stop]]
    /\ UNCHANGED <<sessions, mem, now, disk, nextPath, last, call, hist, stat, given, result>>

\* NamedTemporaryFile(delete=False), then merge_pdfs or add_watermark, which
\* raises when an input is gone or (ok false) cannot be read
DupTransform(t) ==
    /\ th[t].pc = "transform"
    /\ \E ok \in BOOLEAN :
          LET output_path == nextPath + 1
              raises == ~ok \/ ~(DupInputs(th[t]) \subseteq disk)
          IN  /\ nextPath' = output_path
              /\ disk' = disk \cup {output_path}
              /\ stat' = [p \in disk' |->
                              IF p \in disk THEN stat[p]
                              ELSE [dir |-> SYSTEM_TMP, age |-> 0]]
              /\ th' = [th EXCEPT ![t] =
                          [@ EXCEPT !.out = output_path, !.calls = @ + 1,
                                    !.pc = IF raises THEN "done" ELSE "send",
                                    !.reply = IF raises THEN "error" ELSE @]]
    /\ UNCHANGED <<sessions, mem, now, last, call, hist, given, result>>

\* open(output_path, 'rb') and bot.send_document
DupSend(t) ==
    /\ th[t].pc = "send"
    /\ \E sent \in BOOLEAN :
          th' = [th EXCEPT ![t] =
                    IF sent /\ th[t].out \in disk
                    THEN [@ EXCEPT !.pc = "finish", !.sendFile = 1]
                    ELSE [@ EXCEPT !.pc = "done", !.reply = "error"]]
    /\ UNCHANGED <<sessions, mem, now, disk, nextPath, last, call, hist, stat, given, result>>

\* The cleanup (errors passed over) and update_session(state=WAITING, data={})
DupFinish(t) ==
    /\ th[t].pc = "finish"
    /\ disk' = disk \ (DupInputs(th[t]) \cup {th[t].out})
    /\ stat' = [p \in disk' |-> stat[p]]
    /\ sessions' = update_session(sessions, DupChat, WAITING, Some(EmptyDict), now)
    /\ th' = [th EXCEPT ![t] = [@ EXCEPT !.pc = "done", !.reply = "sent"]]
    /\ UNCHANGED <<mem, now, nextPath, last, call, hist, given, result>>

\* The session as bot.py has left it when the completing event is due: two
\* or three files held for a merge, or the parameters of a watermark
DupSessions ==
    {[state |-> UPLOADING_MERGE, data |-> [files |-> <<1, 2>>]],
     [state |-> UPLOADING_MERGE, data |-> [files |-> <<1, 2, 3>>]],
     [state |-> WAITING_WATERMARK_TEXT,
      data |-> [file_path |-> 1, watermark_text |-> <<"a">>, position |-> "center"]]}

DupInit ==
    /\ \E s \in DupSessions :
          /\ sessions = update_session(create_session(<<>>, DupChat, WAITING, NoData, 0),
                                       DupChat, s.state, Some(s.data), 0)
          /\ disk = IF "files" \in DOMAIN s.data THEN Range(s.data.files)
                    ELSE {s.data.file_path}
          /\ nextPath = Cardinality(disk)
          /\ stat = [p \in disk |-> [dir |-> TEMP_DIR, age |-> 0]]
          /\ given = <<>>
          /\ result = <<>>
          /\ th = [t \in Deliveries |->
                     [NotDelivered EXCEPT
                        !.ev = IF "files" \in DOMAIN s.data THEN "confirm_merge"
                               ELSE "op"]]
    /\ mem = <<>>
    /\ now = 0
    /\ last = NoEvent
    /\ call = NoCall
    /\ hist = NoHist

DupNext ==
    \E t \in Deliveries : DupGet(t) \/ DupTransform(t) \/ DupSend(t) \/ DupFinish(t)

SpecDup == DupInit /\ [][DupNext]_vars

\* ------------------- bot.py with the background sweep of TempFileManager
\* (file_cleaner.py). Time passes in half hours; the files' ages are counted
\* up to the first at which the sweep takes a file.

\* cleanup_old_files(max_age_minutes=30) of cleanup_worker, in half hours
MAX_AGE_MINUTES == 1

\* file_time < cutoff_time, for the files under temp_dir (os.walk)
IsOld(st, p) == st[p].dir = TEMP_DIR /\ st[p].age > MAX_AGE_MINUTES

\* The files cleanup_old_files leaves
cleanup_old_files(D, st) == {p \in D : ~IsOld(st, p)}

\* One run of cleanup_worker that deletes something
Sweep ==
    /\ cleanup_old_files(disk, stat) # disk
    /\ disk' = cleanup_old_files(disk, stat)
    /\ stat' = [p \in disk' |-> stat[p]]
    /\ UNCHANGED <<sessions, mem, now, nextPath, last, call, hist, th, given, result>>

\* Half an hour passes: every file not yet old is half an hour older
AgeTick ==
    /\ \E p \in disk : stat[p].age <= MAX_AGE_MINUTES
    /\ stat' = [p \in disk |->
                  [stat[p] EXCEPT !.age = IF @ <= MAX_AGE_MINUTES THEN @ + 1 ELSE @]]
    /\ UNCHANGED <<sessions, mem, now, disk, nextPath, last, call, hist, th, given, result>>

\* The merge and rename dialogues, cancelled, abandoned or completed
SweepMenu ==
    \E c \in Chats, token \in {"merge", "rename", "clear"} :
        Handle(token, c, handle_callback_query(c, token, 0, TRUE, TRUE))

SweepDocument == \E c \in Chats : Handle("pdf", c, handle_document(c, "pdf"))

SweepText ==
    \E c \in Chats, sent \in BOOLEAN : Handle("text", c, handle_text(c, <<"a">>, sent))

SweepNext ==
    \/ SweepMenu
    \/ SweepDocument
    \/ OnConfirmMerge
    \/ SweepText
    \/ AgeTick
    \/ Sweep

\* The sweep thread keeps running and time keeps passing
SpecSweep ==
    /\ Init
    /\ [][SweepNext]_vars
    /\ WF_vars(Sweep)
    /\ WF_vars(AgeTick)

\* ------------------ bot.py and the sweep with the clock: the sessions'
\* expires_at and the files' ages move together, and cleanup_worker runs
\* once per cleanup_interval.

\* cleanup_interval: int = 3600, in half hours
CLEANUP_INTERVAL == 2

\* Half an hour passes on the clock and for every file
Pass ==
    /\ now < MaxTime
    /\ now' = now + 1
    /\ stat' = [p \in disk |->
                  [stat[p] EXCEPT !.age = IF @ <= MAX_AGE_MINUTES THEN @ + 1 ELSE @]]
    /\ UNCHANGED <<sessions, mem, disk, nextPath, last, call, hist, th, given, result>>

\* self.stop_cleanup.wait(self.cleanup_interval) between two runs
SweepOnTime == now % CLEANUP_INTERVAL = 0 /\ Sweep

AgedNext ==
    \/ SweepMenu
    \/ SweepDocument
    \/ OnConfirmMerge
    \/ Pass
    \/ SweepOnTime

SpecAged == Init /\ [][AgedNext]_vars

\* ------------------------------------------- bot.py serving two chats
Pair == {1, 2}

PairInit ==
    /\ \E held \in SUBSET Pair :
          sessions = [c \in held |-> create_session(<<>>, c, WAITING, NoData, 0)[c]]
    /\ mem = <<>>
    /\ now = 0
    /\ disk = {}
    /\ nextPath = 0
    /\ last = NoEvent
    /\ call = NoCall
    /\ hist = NoHist
    /\ th = <<>>
    /\ stat = <<>>
    /\ given = <<>>
    /\ result = <<>>

PairMenu ==
    \E c \in Pair, token \in {"merge", "rename"} :
        Handle(token, c, handle_callback_query(c, token, 0, TRUE, TRUE))

PairDocument == \E c \in Pair : Handle("pdf", c, handle_document(c, "pdf"))

PairConfirmMerge ==
    \E c \in Pair :
        Handle("confirm_merge", c,
               handle_callback_query(c, "confirm_merge", 0, TRUE, TRUE))

PairText == \E c \in Pair : Handle("text", c, handle_text(c, <<"a">>, TRUE))

PairNext ==
    \/ PairMenu
    \/ PairDocument
    \/ PairConfirmMerge
    \/ PairText

SpecPair == PairInit /\ [][PairNext]_vars

\* ------------------- bot.py with the uploads of the merge under way kept:
\* given holds, in the order of their arrival, the files uploaded in merge
\* mode since handle_merge_start ran last.
OrderStart ==
    /\ \E c \in Chats :
          HandleEvent("merge", c, handle_callback_query(c, "merge", 0, TRUE, TRUE))
    /\ given' = <<>>
    /\ UNCHANGED result

OrderOther ==
    \E c \in Chats, token \in {"rename", "clear"} :
        Handle(token, c, handle_callback_query(c, token, 0, TRUE, TRUE))

OrderDocument ==
    /\ \E c \in Chats :
          /\ HandleEvent("pdf", c, handle_document(c, "pdf"))
          /\ given' = IF Has(sessions, c)
                         /\ get_session(sessions, c).state = UPLOADING_MERGE
                      THEN Append(given, NamedTemporaryFile(nextPath))
                      ELSE given
    /\ UNCHANGED result

OrderNext ==
    \/ OrderStart
    \/ OrderOther
    \/ OrderDocument
    \/ OnConfirmMerge

SpecOrder == Init /\ [][OrderNext]_vars

\* ------------------ bot.py with what each upload is: given holds, for
\* each file handle_document passed on to a dialogue, the upload it came from.

\* MAX_FILE_SIZE = 20 * 1024 * 1024, in units of 20 MB
MAX_FILE_SIZE == 1

\* An upload: whether its name is a .pdf name (is_pdf_file), the size it
\* declares (0: none declared), whether its bytes begin with %PDF-
Uploads == [pdf_name : BOOLEAN, file_size : 0..(MAX_FILE_SIZE + 1), signed : BOOLEAN]

\* The checks of handle_document before the download, by the reply they end in
document_checks(upload) ==
    IF ~upload.pdf_name THEN "not_pdf"
    ELSE IF upload.file_size # 0 /\ upload.file_size > MAX_FILE_SIZE THEN "too_large"
    ELSE "pdf"

BoundaryDocument ==
    /\ \E c \in Chats, upload \in Uploads :
          LET e == handle_document(c, document_checks(upload))
          IN  /\ HandleEvent(document_checks(upload), c, e)
              /\ given' = [path \in DOMAIN given \cup (e.D \ disk) |->
                              IF path \in DOMAIN given THEN given[path] ELSE upload]
    /\ UNCHANGED result

BoundaryMenu ==
    \E c \in Chats, token \in {"merge", "rename", "watermark"} :
        Handle(token, c, handle_callback_query(c, token, 0, TRUE, TRUE))

BoundaryNext ==
    \/ BoundaryMenu
    \/ BoundaryDocument
    \/ OnConfirmMerge

SpecBoundary == Init /\ [][BoundaryNext]_vars

\* ------------- handle_merge_file run by several threads for one chat in
\* merge mode: the handler reads the session and appends its file to the
\* list it read, then update_session reads the document and writes.

\* handle_merge_file up to its call of update_session: the upload is on
\* disk, the session is read, the path appended to the files read
MergeFileGet(t) ==
    /\ th[t].pc \in {"idle", "done"}
    /\ nextPath < MaxPaths
    /\ Has(sessions, ConcChat)
    /\ LET file_path == NamedTemporaryFile(nextPath)
           data == AddFile(get_session(sessions, ConcChat).data, file_path)
       IN  /\ nextPath' = file_path
           /\ disk' = disk \cup {file_path}
           /\ stat' = [p \in disk' |->
                          IF p \in disk THEN stat[p] ELSE [dir |-> TEMP_DIR, age |-> 0]]
           /\ th' = [th EXCEPT ![t] = [Idle EXCEPT !.pc = "read", !.patch = data]]
    /\ UNCHANGED <<sessions, mem, now, last, call, hist, given, result>>

UploadsInit ==
    /\ sessions = create_session(<<>>, ConcChat, UPLOADING_MERGE,
                                 Some([files |-> <<>>]), 0)
    /\ mem = <<>>
    /\ now = 0
    /\ disk = {}
    /\ nextPath = 0
    /\ last = NoEvent
    /\ call = NoCall
    /\ hist = NoHist
    /\ th = [t \in Threads |-> Idle]
    /\ stat = <<>>
    /\ given = <<>>
    /\ result = <<>>

UploadsNext == \E t \in Threads : MergeFileGet(t) \/ ConcRead(t) \/ ConcWrite(t)

SpecUploads == UploadsInit /\ [][UploadsNext]_vars

\* --------------- bot.py with what the user supplied for the operation
\* under way: since an operation was selected or the session cleared last,
\* given lists the data keys set by the user's input and result the files
\* uploaded and kept.
With(seq, x) == IF x \in Range(seq) THEN seq ELSE Append(seq, x)

StaleSelect ==
    /\ \E c \in Chats, token \in {"merge", "rename", "watermark", "clear"} :
          HandleEvent(token, c, handle_callback_query(c, token, 0, TRUE, TRUE))
    /\ given' = <<>>
    /\ result' = <<>>

StaleDocument ==
    /\ \E c \in Chats :
          LET e == handle_document(c, "pdf")
          IN  /\ HandleEvent("pdf", c, e)
              /\ result' = IF e.up \in e.D THEN With(result, e.up) ELSE result
    /\ UNCHANGED given

StaleText ==
    /\ \E c \in Chats :
          LET e == handle_text(c, <<"a">>, TRUE)
          IN  /\ HandleEvent("text", c, e)
              /\ given' = IF e.reply = "ask_position"
                          THEN With(given, "watermark_text") ELSE given
    /\ UNCHANGED result

StalePosition ==
    /\ \E c \in Chats :
          /\ HandleEvent("pos", c, handle_callback_query(c, "pos", "center", TRUE, TRUE))
          /\ given' = IF Has(sessions, c) THEN With(given, "position") ELSE given
    /\ UNCHANGED result

StaleOpacity ==
    \E c \in Chats, renders \in BOOLEAN :
        Handle("op", c, handle_callback_query(c, "op", 3, renders, TRUE))

StaleNext ==
    \/ StaleSelect
    \/ StaleDocument
    \/ StaleText
    \/ StalePosition
    \/ StaleOpacity
    \/ OnConfirmMerge

SpecStale == Init /\ [][StaleNext]_vars

\* ------------------------------------ functions applied to a drawn input
\* The state in which nothing but given and result is in use.
Quiet ==
    /\ sessions = <<>>
    /\ mem = <<>>
    /\ now = 0
    /\ disk = {}
    /\ nextPath = 0
    /\ last = NoEvent
    /\ call = NoCall
    /\ hist = NoHist
    /\ th = <<>>
    /\ stat = <<>>

rest == <<sessions, mem, now, disk, nextPath, last, call, hist, th, stat>>

\* ---------------------------------------- FileSizeLimiter (file_cleaner.py)
MaxDirFiles == 3

\* A file of the temporary directory: its modification time, its size, and
\* whether os.unlink on it raises OSError.
DirFiles == [mtime : 1..3, size : 1..2, stuck : BOOLEAN]

\* The directory as os.walk lists it, at most MaxDirFiles files.
Dirs == UNION {[1..n -> DirFiles] : n \in 0..MaxDirFiles}

Limiters == [max_total_size_bytes : {1, 3}, max_files : {1, 2}]

RECURSIVE SumSizes(_, _)
SumSizes(dir, keep) ==
    IF keep = {} THEN 0
    ELSE LET i == CHOOSE k \in keep : TRUE
         IN  dir[i].size + SumSizes(dir, keep \ {i})

\* dir is the listing at the start, keep the indices of the files still there.
get_disk_usage(dir, keep) ==
    [total_size_bytes |-> SumSizes(dir, keep), file_count |-> Cardinality(keep)]

check_limits(self, dir, keep) ==
    LET usage == get_disk_usage(dir, keep)
        size_exceeded == usage.total_size_bytes > self.max_total_size_bytes
        count_exceeded == usage.file_count > self.max_files
    IN  [within_limits |-> ~(size_exceeded \/ count_exceeded),
         total_size_bytes |-> usage.total_size_bytes,
         file_count |-> usage.file_count,
         size_exceeded |-> size_exceeded,
         count_exceeded |-> count_exceeded]

\* The listing in the order os.walk produced it.
WalkOrder(dir) == [i \in 1..Len(dir) |-> i]

\* files.sort(key=mtime): ascending, and stable.
SortByMtime(dir) ==
    LET n == Len(dir)
        Before(a, b) == \/ dir[a].mtime < dir[b].mtime
                        \/ dir[a].mtime = dir[b].mtime /\ a < b
    IN  CHOOSE s \in [1..n -> 1..n] :
            \A i, j \in 1..n : i < j => Before(s[i], s[j])

\* The loop of enforce_limits from position k of the sorted list on.
RECURSIVE DeleteOldest(_, _, _, _, _, _, _)
DeleteOldest(self, dir, files, k, keep, status, deleted) ==
    IF k > Len(files) \/ status.within_limits
    THEN [deleted |-> deleted, left |-> keep]
    ELSE IF dir[files[k]].stuck
    THEN DeleteOldest(self, dir, files, k + 1, keep, status, deleted)
    ELSE LET kept == keep \ {files[k]}
         IN  DeleteOldest(self, dir, files, k + 1, kept,
                          check_limits(self, dir, kept),
                          Append(deleted, files[k]))

enforce_limits(self, dir) ==
    LET status == check_limits(self, dir, DOMAIN dir)
    IN  IF status.within_limits
        THEN [deleted |-> <<>>, left |-> DOMAIN dir]
        ELSE DeleteOldest(self, dir, SortByMtime(dir), 1, DOMAIN dir, status, <<>>)

LimitsInit ==
    /\ Quiet
    /\ given \in [self : Limiters, dir : Dirs]
    /\ result = <<>>

Enforce ==
    /\ result = <<>>
    /\ result' = enforce_limits(given.self, given.dir)
    /\ UNCHANGED <<rest, given>>

LimitsNext == Enforce

SpecLimits == LimitsInit /\ [][LimitsNext]_vars

\* ------------------------------- PDFProcessor.merge_pdfs, its exceptions
\* What the body of the try block raises: FileNotFoundError at the first
\* path that does not exist, else what PdfMerger raises on a file it
\* cannot read, else nothing.
MergeBody(input_paths, present, readable) ==
    IF \E i \in DOMAIN input_paths : input_paths[i] \notin present
    THEN "FileNotFoundError"
    ELSE IF ~readable THEN "PdfReadError"
    ELSE "none"

\* except Exception as e: raise Exception(f"Merge failed: {str(e)}")
ExceptException(inner) == IF inner = "none" THEN "none" ELSE "Exception"

\* The class of the exception a call of merge_pdfs raises, and the files
\* there are after it; output_path is no input path.
OUTPUT_PATH == 0

merge_pdfs_call(input_paths, present, readable) ==
    LET raised == IF Len(input_paths) < 2 THEN "ValueError"
                  ELSE ExceptException(MergeBody(input_paths, present, readable))
    IN  [raised |-> raised,
         present |-> IF raised = "none" THEN present \cup {OUTPUT_PATH} ELSE present]

MergeInputs ==
    UNION {[1..n -> 1..MaxPaths] : n \in 0..MaxPaths}

MergeCallInit ==
    /\ Quiet
    /\ given \in [input_paths : MergeInputs, present : SUBSET (1..MaxPaths),
                  readable : BOOLEAN]
    /\ result = <<>>

MergeCall ==
    /\ result = <<>>
    /\ result' = merge_pdfs_call(given.input_paths, given.present, given.readable)
    /\ UNCHANGED <<rest, given>>

MergeCallNext == MergeCall

SpecMergeCall == MergeCallInit /\ [][MergeCallNext]_vars

\* ------------------ the output file of a merge, step by step: the file
\* handle_merge_confirm creates and merge_pdfs writes. result holds where
\* the handler is (pc) and what is at output_path: whether a file exists
\* there and the pages written to it so far.
\* The files of a session that handle_merge_confirm passes on: two or more,
\* no file twice.
ConfirmedInputs ==
    {input_paths \in UNION {[1..n -> 1..MaxPaths] : n \in 2..MaxPaths} :
        \A i, j \in DOMAIN input_paths : input_paths[i] = input_paths[j] => i = j}

WriteInit ==
    /\ Quiet
    /\ given \in [input_paths : ConfirmedInputs, present : SUBSET (1..MaxPaths),
                  readable : BOOLEAN, disk_full : BOOLEAN]
    /\ result = [pc |-> "confirm", exists |-> FALSE, pages |-> <<>>]

\* with tempfile.NamedTemporaryFile(suffix='_merged.pdf', delete=False) as
\* tmp_file: output_path = tmp_file.name -- an empty file is left there
OutputTempFile ==
    /\ result.pc = "confirm"
    /\ result' = [pc |-> "call", exists |-> TRUE, pages |-> <<>>]
    /\ UNCHANGED <<rest, given>>

\* merge_pdfs entered: the loop over input_paths
MergeAppend ==
    /\ result.pc = "call"
    /\ result' = [result EXCEPT !.pc =
                    IF MergeBody(given.input_paths, given.present, given.readable)
                           = "none"
                    THEN "write" ELSE "raised"]
    /\ UNCHANGED <<rest, given>>

\* merger.write(output_path) opens the path itself for writing
WriteOpen ==
    /\ result.pc = "write"
    /\ result' = [pc |-> "writing", exists |-> TRUE, pages |-> <<>>]
    /\ UNCHANGED <<rest, given>>

\* part of the document is written; the device may be full then
WritePart ==
    /\ result.pc = "writing"
    /\ LET all == merger_append(given.input_paths)
       IN  result' = [pc |-> IF given.disk_full THEN "raised" ELSE "writing_rest",
                      exists |-> TRUE,
                      pages |-> Take(all, Len(all) \div 2)]
    /\ UNCHANGED <<rest, given>>

WriteRest ==
    /\ result.pc = "writing_rest"
    /\ result' = [pc |-> "returned", exists |-> TRUE,
                  pages |-> merger_append(given.input_paths)]
    /\ UNCHANGED <<rest, given>>

\* send_document, then os.unlink(output_path)
SendAndUnlink ==
    /\ result.pc = "returned"
    /\ result' = [pc |-> "sent", exists |-> FALSE, pages |-> <<>>]
    /\ UNCHANGED <<rest, given>>

\* except Exception as e: the error is logged and replied, nothing removed
MergeExcept ==
    /\ result.pc = "raised"
    /\ result' = [result EXCEPT !.pc = "replied"]
    /\ UNCHANGED <<rest, given>>

WriteNext ==
    \/ OutputTempFile
    \/ MergeAppend
    \/ WriteOpen
    \/ WritePart
    \/ WriteRest
    \/ SendAndUnlink
    \/ MergeExcept

SpecWrite == WriteInit /\ [][WriteNext]_vars

\* ----------------------------- PDFProcessor._create_watermark_pdf, fonts
MaxTextLength == 32

\* font_size of _create_watermark_pdf
font_size(text_length) ==
    IF text_length <= 10 THEN 48
    ELSE IF text_length <= 20 THEN 36
    ELSE IF text_length <= 30 THEN 24
    ELSE 18

\* max(12, font_size - 12)
small_font(size) == IF size - 12 > 12 THEN size - 12 ELSE 12

\* The font sizes in which the text is drawn on the page (drawCentredString,
\* drawString, drawRightString), the font being that of the setFont before.
drawn_sizes(text_length, position) ==
    IF position = "diagonal" THEN {36}
    ELSE IF position = "corners"
    THEN {small_font(font_size(text_length)), font_size(text_length)}
    ELSE {font_size(text_length)}

Layouts == {"center", "top", "bottom", "diagonal", "corners", "other"}

FontInit ==
    /\ Quiet
    /\ given \in [text_length : 0..MaxTextLength, position : Layouts]
    /\ result = <<>>

CreateWatermark ==
    /\ result = <<>>
    /\ result' = [drawn |-> drawn_sizes(given.text_length, given.position)]
    /\ UNCHANGED <<rest, given>>

FontNext == CreateWatermark

SpecFont == FontInit /\ [][FontNext]_vars

\* -------------------------- TextValidator.is_valid_opacity (validators.py)
\* a <= b on floats: every comparison with nan is False
LessEq(a, b) ==
    /\ a.k # "nan"
    /\ b.k # "nan"
    /\ \/ a.k = "num" /\ b.k = "num" /\ a.x <= b.x
       \/ a.k = "num" /\ b.k = "inf"
       \/ a.k = "inf" /\ b.k = "inf"

\* The None returned in place of a float
NoFloat == [k |-> "None", x |-> 0]

\* is_valid_opacity with no lower end to the range
is_valid_opacity_no_floor(value) ==
    LET opacity == float(value) IN
    IF opacity = ValueError THEN NoFloat
    ELSE IF LessEq(opacity, Num(100)) THEN opacity
    ELSE NoFloat

\* opacity = float(value); if 0.1 <= opacity <= 1.0: return opacity;
\* return None; except ValueError: return None -- values in hundredths
is_valid_opacity(value) ==
    LET opacity == float(value) IN
    IF opacity = ValueError THEN NoFloat
    ELSE IF LessEq(Num(10), opacity) /\ LessEq(opacity, Num(100)) THEN opacity
    ELSE NoFloat

\* The texts validated: decimals of at most two places, and words
OpacityTexts ==
    LET wholes == {<<>>, <<"0">>, <<"1">>, <<"2">>, <<"1", "0">>}
        places == {<<>>, <<"0">>, <<"1">>, <<"5">>, <<"9">>, <<"0", "5">>,
                   <<"0", "9">>, <<"1", "0">>, <<"1", "1">>, <<"0", "0">>,
                   <<"0", "1">>, <<"9", "9">>}
        fracs == {<<>>} \cup {<<".">> \o d : d \in places}
    IN  {w \o f : w \in wholes, f \in fracs}
            \cup {<<"a", "b", "c">>, <<"n", "a", "n">>, <<"i", "n", "f">>,
                  <<"1", ".", "0", ".", "0">>}

OpacityInit ==
    /\ Quiet
    /\ given \in OpacityTexts
    /\ result = <<>>

ValidateOpacity ==
    /\ result = <<>>
    /\ result' = is_valid_opacity(given)
    /\ UNCHANGED <<rest, given>>

OpacityNext == ValidateOpacity

SpecOpacity == OpacityInit /\ [][OpacityNext]_vars

\* ----------- the custom opacity of bot (12).py beside is_valid_opacity:
\* a chat of bot (12).py that chose Custom, with file, text and position
\* held, sends a text; result is what is_valid_opacity makes of that text.
AgreeInit ==
    /\ sessions = create_session(<<>>, 1, WAITING_WATERMARK_OPACITY,
                                 Some([file_path |-> 1, watermark_text |-> <<"a">>,
                                       position |-> "center"]), 0)
    /\ mem = <<>>
    /\ now = 0
    /\ disk = {1}
    /\ nextPath = 1
    /\ last = NoEvent
    /\ call = NoCall
    /\ hist = NoHist
    /\ th = <<>>
    /\ stat = [p \in {1} |-> [dir |-> TEMP_DIR, age |-> 0]]
    /\ given \in OpacityTexts
    /\ result = <<>>

AgreeText ==
    /\ result = <<>>
    /\ \E renders \in BOOLEAN, sent \in BOOLEAN :
          HandleEvent("text", 1, b12_handle_text(1, given, renders, sent))
    /\ result' = is_valid_opacity(given)
    /\ UNCHANGED given

AgreeNext == AgreeText

SpecAgree == AgreeInit /\ [][AgreeNext]_vars

\* ------------------------ FileValidator.sanitize_filename (validators.py)
MaxNameLen == 4

ascii_uppercase ==
    <<"A", "B", "C", "D", "E", "F", "G", "H", "I", "J", "K", "L", "M", "N", "O",
      "P", "Q", "R", "S", "T", "U", "V", "W", "X", "Y", "Z">>

ascii_lowercase ==
    <<"a", "b", "c", "d", "e", "f", "g", "h", "i", "j", "k", "l", "m", "n", "o",
      "p", "q", "r", "s", "t", "u", "v", "w", "x", "y", "z">>

\* s.lower()
lower(s) ==
    [i \in DOMAIN s |->
        IF \E k \in DOMAIN ascii_uppercase : ascii_uppercase[k] = s[i]
        THEN ascii_lowercase[CHOOSE k \in DOMAIN ascii_uppercase :
                                 ascii_uppercase[k] = s[i]]
        ELSE s[i]]

\* os.path.basename(filename): what follows the last "/"
basename(filename) ==
    LET slashes == {i \in DOMAIN filename : filename[i] = "/"}
        after == IF slashes = {} THEN 1
                 ELSE 1 + CHOOSE i \in slashes : \A j \in slashes : j <= i
    IN  SubSeq(filename, after, Len(filename))

\* ''.join(c for c in basename if c in safe_chars)
RECURSIVE KeepSafe(_)
KeepSafe(s) ==
    IF s = <<>> THEN <<>>
    ELSE IF Head(s) \in safe_chars THEN <<Head(s)>> \o KeepSafe(Tail(s))
    ELSE KeepSafe(Tail(s))

DocumentPdf == <<"d", "o", "c", "u", "m", "e", "n", "t", ".", "p", "d", "f">>

sanitize_filename(filename) ==
    LET kept == KeepSafe(basename(filename))
        sanitized == IF EndsWith(lower(kept), DotPdf) THEN kept ELSE kept \o DotPdf
    IN  IF filename = <<>> THEN DocumentPdf
        ELSE IF sanitized = <<>> \/ sanitized = DotPdf THEN DocumentPdf
        ELSE sanitized

\* unsafe_patterns of is_safe_filename
unsafe_patterns ==
    {<<".", ".">>, <<"/">>, <<"\\">>, <<":">>, <<";">>, <<"|">>, <<"*">>, <<"?">>,
     <<"\"">>, <<"<">>, <<">">>}

\* if not filename: return False;
\* return not any(pattern in filename for pattern in unsafe_patterns)
is_safe_filename(filename) ==
    /\ filename # <<>>
    /\ \A pattern \in unsafe_patterns : ~Contains(filename, pattern)

\* The characters the names tried are made of
NameChars == {"a", ".", "p", "d", "f", "P", "/", "?"}

Filenames == UNION {[1..n -> NameChars] : n \in 0..MaxNameLen}

SanitizeInit ==
    /\ Quiet
    /\ given \in Filenames
    /\ result = <<>>

Sanitize ==
    /\ result = <<>>
    /\ result' = [name |-> sanitize_filename(given)]
    /\ UNCHANGED <<rest, given>>

SanitizeNext == Sanitize

SpecSanitize == SanitizeInit /\ [][SanitizeNext]_vars

\* -------------- the error replies of bot.py and bot (12).py: how much of
\* the message of the exception caught the reply carries
MaxMessageLen == 201

\* The handlers whose except branch replies with the exception's message
Reporting == {"handle_merge_confirm", "handle_document", "handle_rename_filename",
              "process_watermark"}

\* str(e) of an exception whose message has n characters
Message(n) == [i \in 1..n |-> "x"]

\* bot.py: f"... {str(e)[:200]}" in each of the four handlers
error_reply(handler, e) == Take(e, 200)

\* bot (12).py: f"... {str(e)}" in each of the four handlers
b12_error_reply(handler, e) == e

ErrorInit ==
    /\ Quiet
    /\ given \in [bot : {"bot.py", "bot (12).py"}, handler : Reporting,
                  e : {Message(n) : n \in 0..MaxMessageLen}]
    /\ result = <<>>

ReplyError ==
    /\ result = <<>>
    /\ result' = [shown |-> IF given.bot = "bot.py"
                            THEN error_reply(given.handler, given.e)
                            ELSE b12_error_reply(given.handler, given.e)]
    /\ UNCHANGED <<rest, given>>

ErrorNext == ReplyError

SpecErrors == ErrorInit /\ [][ErrorNext]_vars

\* ================================================================ claims
\* data.files of a session document, [] when it has none
HeldFiles(doc) == IF "files" \in DOMAIN doc.data THEN doc.data.files ELSE <<>>

\* C1: in bot.py, from a session in UPLOADING_MERGE holding two uploaded
\* files, a confirm_merge whose merge succeeds sends exactly one document,
\* leaves no session for the chat, and leaves neither the two source files
\* nor the merged output on disk.
C1_EndToEndMerge ==
    (/\ last.ev = "confirm_merge"
     /\ last.had
     /\ last.pre.state = UPLOADING_MERGE
     /\ Len(HeldFiles(last.pre)) = 2
     /\ last.reply = "merged")
    => /\ last.sendFile = 1
       /\ ~Has(sessions, last.chat)
       /\ Range(HeldFiles(last.pre)) \cap disk = {}
       /\ last.out \notin disk

\* C2: when two concurrent update_session calls on one existing session,
\* with data patches on different keys, have both returned, the stored data
\* holds both patches.
C2_NoLostUpsert ==
    (/\ \A t \in Threads : th[t].pc = "done"
     /\ \A t, u \in Threads :
           t # u => (DOMAIN th[t].patch) \cap (DOMAIN th[u].patch) = {})
    => \A t \in Threads : \A k \in DOMAIN th[t].patch :
          /\ Has(sessions, ConcChat)
          /\ k \in DOMAIN sessions[ConcChat].data
          /\ sessions[ConcChat].data[k] = th[t].patch[k]

\* C3: after update_session(chat_id, state, data) for a chat with no stored
\* session, get_session gives a session with that state and data, for the
\* SessionManager and for the MemorySessionManager.
C3_UpsertCreates ==
    (/\ call.op = "update"
     /\ ~call.had
     /\ ~call.memHad
     /\ call.state # None
     /\ call.data # NoData)
    => /\ Has(sessions, call.chat)
       /\ get_session(sessions, call.chat).state = call.state
       /\ get_session(sessions, call.chat).data = call.data[1]
       /\ Has(mem, call.chat)
       /\ mem_get_session(mem, call.chat).state = call.state
       /\ mem_get_session(mem, call.chat).data = call.data[1]

\* The value a series of patches leaves under key k: that of the last patch
\* that has k, the initial one when no patch has it
Writers(calls, k) ==
    {i \in DOMAIN calls : calls[i].data # NoData /\ k \in DOMAIN calls[i].data[1]}

Max(S) == CHOOSE x \in S : \A y \in S : y <= x

FoldedKeys(init, calls) ==
    (DOMAIN init) \cup
    UNION {DOMAIN calls[i].data[1] : i \in {j \in DOMAIN calls : calls[j].data # NoData}}

FoldedData(init, calls) ==
    [k \in FoldedKeys(init, calls) |->
        IF Writers(calls, k) = {} THEN init[k]
        ELSE calls[Max(Writers(calls, k))].data[1][k]]

StateSetters(calls) == {i \in DOMAIN calls : calls[i].state # None}

FoldedState(init, calls) ==
    IF StateSetters(calls) = {} THEN init ELSE calls[Max(StateSetters(calls))].state

\* C4: after any series of update_session calls, made one after the other
\* on a session that create_session made, the stored data is the left fold
\* of the shallow merges of the patches in call order (per key, the last
\* writer wins), and the state is the last state passed that was not None.
C4_FoldOfMerges ==
    hist.created =>
        \A c \in Chats :
            /\ Has(sessions, c)
            /\ sessions[c].data = FoldedData(hist.data, hist.calls)
            /\ sessions[c].state = FoldedState(hist.state, hist.calls)

C4_Witness ==
    /\ hist.created
    /\ Len(hist.calls) = 3
    /\ hist.calls[1].data = Some([file_path |-> 1])
    /\ hist.calls[2].data = Some([position |-> "center"])
    /\ hist.calls[2].state = UPLOADING_MERGE
    /\ hist.calls[3].data = Some([file_path |-> 2])
    /\ hist.calls[3].state = None
    /\ \A c \in Chats :
          /\ Has(sessions, c)
          /\ sessions[c].data = [file_path |-> 2, position |-> "center"]
          /\ sessions[c].state = UPLOADING_MERGE

\* C5: a get_session made after the clock has passed the session's
\* expires_at returns no session.
C5_ExpiredIsAbsent ==
    (call.op = "get" /\ call.at > call.doc.expires_at) => ~call.had

\* C6: in bot.py, after /cancel or the clear button is handled, no session
\* is stored for the chat, so none of its data is.
C6_CancelDeletes ==
    last.ev \in {"cancel", "clear"} => ~Has(sessions, last.chat)

\* C7: in bot.py, after /start is handled, whatever was stored before, a
\* session is stored for the chat with state WAITING and no data.
C7_StartResets ==
    (last.ev = "start" /\ last.reply = "menu")
    => /\ Has(sessions, last.chat)
       /\ get_session(sessions, last.chat).state = WAITING
       /\ get_session(sessions, last.chat).data = EmptyDict

\* C8: with a session stored in WAITING, the merge button leaves it in
\* UPLOADING_MERGE with data.files = [], the rename button in
\* UPLOADING_RENAME, and the watermark button in UPLOADING_WATERMARK.
C8_OperationSelection ==
    (last.had /\ last.pre.state = WAITING)
    => /\ last.ev = "merge" =>
            /\ Has(sessions, last.chat)
            /\ sessions[last.chat].state = UPLOADING_MERGE
            /\ "files" \in DOMAIN sessions[last.chat].data
            /\ sessions[last.chat].data.files = <<>>
       /\ last.ev = "rename" =>
            /\ Has(sessions, last.chat)
            /\ sessions[last.chat].state = UPLOADING_RENAME
       /\ last.ev = "watermark" =>
            /\ Has(sessions, last.chat)
            /\ sessions[last.chat].state = UPLOADING_WATERMARK

C8_Witness ==
    /\ last.ev = "merge"
    /\ last.had
    /\ last.pre.state = WAITING
    /\ Len(HeldFiles(last.pre)) = 2
    /\ sessions[last.chat].state = UPLOADING_MERGE
    /\ HeldFiles(sessions[last.chat]) = <<>>

\* C9: an accepted file upload in UPLOADING_MERGE leaves the state
\* UPLOADING_MERGE and data.files as it was with one new path at its end.
C9_UploadAppends ==
    (last.ev = "pdf" /\ last.had /\ last.pre.state = UPLOADING_MERGE)
    => /\ Has(sessions, last.chat)
       /\ sessions[last.chat].state = UPLOADING_MERGE
       /\ HeldFiles(sessions[last.chat]) = Append(HeldFiles(last.pre), last.up)
       /\ last.up \notin Range(HeldFiles(last.pre))
       /\ last.up \in disk

C9_Witness ==
    /\ last.ev = "pdf"
    /\ last.had
    /\ last.pre.state = UPLOADING_MERGE
    /\ Len(HeldFiles(last.pre)) = 1
    /\ Len(HeldFiles(sessions[last.chat])) = 2

\* C10: merge_pdfs is only ever called with the two or more files held in
\* data.files, and a confirm_merge that finds fewer than two held files
\* calls nothing, sends nothing and leaves the session as it was.
C10_MergeNeedsTwoFiles ==
    /\ \A i \in DOMAIN last.merged :
          /\ Len(last.merged[i]) >= 2
          /\ last.merged[i] = HeldFiles(last.pre)
    /\ (last.ev = "confirm_merge" /\ Len(HeldFiles(last.pre)) < 2)
       => /\ last.merged = <<>>
          /\ last.sendFile = 0
          /\ Has(sessions, last.chat) = last.had
          /\ get_session(sessions, last.chat) = last.pre

C10_Witness ==
    /\ last.ev = "confirm_merge"
    /\ last.had
    /\ last.pre.state = UPLOADING_MERGE
    /\ Len(HeldFiles(last.pre)) = 1
    /\ last.reply = "need_two"
    /\ HeldFiles(sessions[last.chat]) = HeldFiles(last.pre)

\* C11: when merge_pdfs (in handle_merge_confirm) or add_watermark (in
\* process_watermark) raises, an error text is sent and no document, the
\* transform was called once in that run (no retry), the session is stored
\* with the state and data it had before, and the same trigger handled again
\* calls the transform again.
C11_TransformFailureKeepsSession ==
    last.raised \in {"merge_pdfs", "add_watermark"}
    => /\ last.reply \in {"merge_error", "watermark_error"}
       /\ last.sendFile = 0
       /\ Len(last.merged) + Len(last.stamped) = 1
       /\ last.had
       /\ Has(sessions, last.chat)
       /\ get_session(sessions, last.chat) = last.pre
       /\ last.ev = "confirm_merge"
            => handle_merge_confirm(last.chat, TRUE, TRUE).merged = last.merged
       /\ last.ev = "op"
            => \A op \in Opacities :
                  Len(process_watermark(last.chat, op, TRUE, TRUE).stamped) = 1

C11_Witness ==
    /\ last.ev = "op"
    /\ last.raised = "add_watermark"
    /\ last.reply = "watermark_error"
    /\ Len(last.stamped) = 1
    /\ get_session(sessions, last.chat) = last.pre
    /\ last.pre.data.file_path \in disk

\* C12: when one completing event (confirm_merge, or an opacity selection)
\* is delivered twice for a chat and both handler runs have ended, however
\* they interleaved, the transform was called once at most and one document
\* at most was sent.
C12_ExactlyOnce ==
    (\A t \in Deliveries : th[t].pc = "done")
    => \A t, u \in Deliveries :
          t # u => /\ th[t].calls + th[u].calls <= 1
                   /\ th[t].sendFile + th[u].sendFile <= 1

\* The states in which handle_document takes the file
Uploading == {UPLOADING_MERGE, UPLOADING_RENAME, UPLOADING_WATERMARK}

C14_MismatchedInputNoMutation ==
    (/\ last.had
     /\ \/ last.ev = "text" /\ last.pre.state \in Uploading
        \/ last.ev = "pdf" /\ last.pre.state \in BotState \ Uploading)
    => /\ last.reply = "select_option"
       /\ Has(sessions, last.chat)
       /\ get_session(sessions, last.chat) = last.pre
       /\ last.sendFile = 0

C14_Witness ==
    /\ last.ev = "text"
    /\ last.had
    /\ last.pre.state = UPLOADING_MERGE
    /\ Len(HeldFiles(last.pre)) = 1
    /\ last.reply = "select_option"
    /\ get_session(sessions, last.chat) = last.pre

\* C15: with no session stored for the chat, a file upload, a text message
\* and each of the callbacks merge, rename, watermark, confirm_merge, pos_*
\* and op_* is answered with the prompt to use the start menu, enters no
\* upload mode and calls no transform.
C15_NoSessionPrompt ==
    (/\ ~last.had
     /\ last.ev \in {"pdf", "text", "merge", "rename", "watermark",
                     "confirm_merge", "pos", "op"})
    => /\ last.reply \in {"select_option", "expired_start"}
       /\ get_session(sessions, last.chat).state \notin Uploading
       /\ last.merged = <<>>
       /\ last.stamped = <<>>

\* C16: an accepted file upload leaves a session that was in
\* UPLOADING_RENAME in WAITING_FILENAME, and one that was in
\* UPLOADING_WATERMARK in WAITING_WATERMARK_TEXT, in both cases with
\* data.file_path the path of the new file, which is on disk.
C16_SingleFileUpload ==
    (/\ last.ev = "pdf"
     /\ last.had
     /\ last.pre.state \in {UPLOADING_RENAME, UPLOADING_WATERMARK})
    => /\ Has(sessions, last.chat)
       /\ sessions[last.chat].state =
            (IF last.pre.state = UPLOADING_RENAME THEN WAITING_FILENAME
             ELSE WAITING_WATERMARK_TEXT)
       /\ "file_path" \in DOMAIN sessions[last.chat].data
       /\ sessions[last.chat].data.file_path = last.up
       /\ last.up \in disk
       /\ last.reply = (IF last.pre.state = UPLOADING_RENAME THEN "ask_filename"
                        ELSE "ask_text")

C16_Witness ==
    /\ last.ev = "pdf"
    /\ last.had
    /\ last.pre.state = UPLOADING_RENAME
    /\ "file_path" \in DOMAIN last.pre.data
    /\ sessions[last.chat].state = WAITING_FILENAME
    /\ sessions[last.chat].data.file_path = last.up
    /\ sessions[last.chat].data.file_path # last.pre.data.file_path

\* C17: the visible filename of every document handle_rename_filename sends
\* is made of characters of the safe set only, holds no path traversal
\* sequence and ends in .pdf.
C17_RenameSanitized ==
    (last.ev = "text" /\ last.reply = "renamed" /\ last.sendFile = 1)
    => /\ Range(last.name) \subseteq safe_chars
       /\ ~Contains(last.name, <<".", ".">>)
       /\ EndsWith(last.name, DotPdf)

\* C18: an accepted text in WAITING_WATERMARK_TEXT leaves the session in
\* WAITING_WATERMARK_POSITION with data.watermark_text stored, and an
\* accepted position selection leaves it with data.position stored and in
\* WAITING_WATERMARK_OPACITY, unless it called the watermark itself.
C18_WatermarkDialogueAdvances ==
    /\ (/\ last.ev = "text"
        /\ last.had
        /\ last.pre.state = WAITING_WATERMARK_TEXT
        /\ last.reply = "ask_position")
       => /\ Has(sessions, last.chat)
          /\ "watermark_text" \in DOMAIN sessions[last.chat].data
          /\ sessions[last.chat].state = WAITING_WATERMARK_POSITION
    /\ (last.ev = "pos" /\ last.had)
       => /\ Has(sessions, last.chat)
          /\ "position" \in DOMAIN sessions[last.chat].data
          /\ \/ sessions[last.chat].state = WAITING_WATERMARK_OPACITY
             \/ last.stamped # <<>>

\* v is a number within 0.1 .. 1.0
InRange(v) == v.k = "num" /\ MIN_OPACITY <= v.x /\ v.x <= MAX_OPACITY

\* C19: in bot (12).py, with the session in WAITING_WATERMARK_OPACITY, a
\* text that is no number or whose value is not within 0.1 .. 1.0 is answered
\* with an error, calls add_watermark not at all and leaves the session as
\* it was; a preset or a custom value within 0.1 .. 1.0 calls add_watermark
\* once with that opacity, and when the document is sent the input and the
\* output file are deleted and so is the session.
C19_OpacityValidated ==
    /\ (/\ last.ev = "text"
        /\ last.had
        /\ last.pre.state = WAITING_WATERMARK_OPACITY)
       => /\ \A i \in DOMAIN last.stamped : InRange(last.stamped[i].opacity)
          /\ last.stamped = <<>>
               => /\ last.reply \in {"invalid_opacity", "missing_parameters",
                                     "file_not_found"}
                  /\ Has(sessions, last.chat)
                  /\ get_session(sessions, last.chat) = last.pre
    /\ last.stamped # <<>>
       => /\ Len(last.stamped) = 1
          /\ last.sendFile = 1
               => /\ ~Has(sessions, last.chat)
                  /\ last.stamped[1].input_path \notin disk
                  /\ last.out \notin disk

\* C20: every temporary file bot.py creates, an ingested upload or the
\* output file of a transform, is deleted in the end, whether the operation
\* succeeds, the transform or the send fails, or the dialogue is abandoned
\* or cancelled, as long as the sweep keeps running.
C20_CleanupGuaranteed ==
    \A p \in 1..MaxPaths : (p \in disk) ~> (p \notin disk)

\* The paths the operation of a session document holds: data.files while
\* files are collected for a merge, data.file_path once the one file of a
\* rename or a watermark is uploaded
HeldPaths(doc) ==
    IF doc.state = UPLOADING_MERGE THEN Range(HeldFiles(doc))
    ELSE IF doc.state \in {WAITING_FILENAME, WAITING_WATERMARK_TEXT}
            /\ "file_path" \in DOMAIN doc.data
    THEN {doc.data.file_path}
    ELSE {}

\* C21: no step deletes a file that is held in data.files or data.file_path
\* of a session which has not expired (the clock is before its expires_at)
\* and whose operation is under way, unless that step completes or cancels
\* the operation (the session is then in WAITING): the sweep takes
\* abandoned files only.
C21_SweepSparesLiveSessions ==
    [][\A c \in DOMAIN sessions :
          (now < sessions[c].expires_at /\ sessions[c].state # WAITING)
          => \A p \in HeldPaths(sessions[c]) \cap disk :
                \/ p \in disk'
                \/ sessions'[c].state = WAITING]_vars

\* C22: enforce_limits deletes nothing when neither limit is exceeded;
\* otherwise it deletes in ascending order of modification time, passing
\* over only the files that cannot be deleted, it deletes no file once the
\* total size and the count are within the limits, and when every deletion
\* succeeds both limits hold on return.
C22_OldestFirstUntilWithin ==
    result # <<>> =>
        LET self == given.self
            dir == given.dir
            d == result.deleted
            Within(keep) ==
                /\ SumSizes(dir, keep) <= self.max_total_size_bytes
                /\ Cardinality(keep) <= self.max_files
            After(n) == DOMAIN dir \ {d[i] : i \in 1..n}
        IN  /\ Within(DOMAIN dir) => d = <<>>
            /\ \A i, j \in DOMAIN d : i < j => dir[d[i]].mtime <= dir[d[j]].mtime
            /\ \A i \in DOMAIN d : \A k \in result.left :
                  dir[k].mtime < dir[d[i]].mtime => dir[k].stuck
            /\ \A n \in 0..(Len(d) - 1) : ~Within(After(n))
            /\ result.left = After(Len(d))
            /\ (\A k \in DOMAIN dir : ~dir[k].stuck) => Within(result.left)

C22_Witness ==
    /\ result # <<>>
    /\ Len(result.deleted) = 2
    /\ result.left # {}
    /\ \E k \in result.left : ~given.dir[k].stuck
    /\ given.dir[1].mtime > given.dir[2].mtime

\* Every path the data of a session document names
PathsIn(doc) ==
    Range(HeldFiles(doc))
        \cup (IF "file_path" \in DOMAIN doc.data THEN {doc.data.file_path} ELSE {})

\* C23: with the events of two chats interleaved in any order, no path is
\* named by the data of two sessions, and no path occurs twice in the
\* files of one session.
C23_ArtifactsNotShared ==
    /\ \A c1, c2 \in DOMAIN sessions :
          c1 # c2 => PathsIn(sessions[c1]) \cap PathsIn(sessions[c2]) = {}
    /\ \A c \in DOMAIN sessions :
          LET held == HeldFiles(sessions[c])
          IN  \A i, j \in DOMAIN held : held[i] = held[j] => i = j

C23_Witness ==
    /\ DOMAIN sessions = Pair
    /\ Len(HeldFiles(sessions[1])) = 2
    /\ PathsIn(sessions[2]) # {}
    /\ last.chat = 2
    /\ last.up # 0

\* C24: merge_pdfs called with fewer than two paths raises the exception of
\* too few inputs; called with two or more paths of which one does not
\* exist it raises the exception of a missing file, which no other failure
\* of a merge raises, and the files that were there are still there.
C24_MergeErrorKinds ==
    result # <<>> =>
        LET paths == given.input_paths
            missing == \E i \in DOMAIN paths : paths[i] \notin given.present
        IN  /\ Len(paths) < 2 => result.raised = "ValueError"
            /\ (Len(paths) >= 2 /\ missing) =>
                  /\ result.raised = "FileNotFoundError"
                  /\ result.present = given.present
            /\ (Len(paths) >= 2 /\ ~missing /\ ~given.readable) =>
                  result.raised \notin {"none", "ValueError", "FileNotFoundError"}

\* C25: the pages of the merged document sent are the pages of the files
\* uploaded since merge mode was entered last, file after file in the order
\* of upload and page after page within each file.
C25_MergedInUploadOrder ==
    (last.ev = "confirm_merge" /\ last.sendFile = 1) =>
        LET pages == merger_append(last.merged[1])
        IN  /\ Len(pages) = MaxPages * Len(given)
            /\ \A k \in DOMAIN pages :
                  pages[k] = <<given[((k - 1) \div MaxPages) + 1],
                               ((k - 1) % MaxPages) + 1>>

C25_Witness ==
    /\ last.ev = "confirm_merge"
    /\ last.sendFile = 1
    /\ Len(given) = 2
    /\ given[1] # given[2]
    /\ last.out \notin Range(given)

\* C26: from the moment merge_pdfs is entered, whether it returns or
\* raises, the output path either holds no file or holds the whole merged
\* document, never an empty or a partly written one.
C26_OutputAtomic ==
    result.pc \notin {"confirm", "call"} =>
        \/ ~result.exists
        \/ result.pages = merger_append(given.input_paths)

Largest(S) == CHOOSE x \in S : \A y \in S : y <= x
Smallest(S) == CHOOSE x \in S : \A y \in S : x <= y

\* C27: in every position the size a text is drawn in does not grow with
\* its length, a text of at most 10 characters is drawn in the largest of
\* the sizes of the step function and one of more than 30 in the smallest.
C27_FontSizeSteps ==
    result # <<>> =>
        LET n == given.text_length
            tiers == {font_size(k) : k \in 0..MaxTextLength}
        IN  /\ \A m \in n..MaxTextLength :
                  LET longer == drawn_sizes(m, given.position)
                  IN  /\ Largest(result.drawn) >= Largest(longer)
                      /\ Smallest(result.drawn) >= Smallest(longer)
            /\ n <= 10 => Largest(tiers) \in result.drawn
            /\ n > 30 => Smallest(tiers) \in result.drawn

\* C28: is_valid_opacity returns the value parsed exactly when it lies
\* between 0.1 and 1.0, both included, and None for every other text; it
\* raises nothing. "0.05", "1.1" and "abc" give None, "0.1" gives 0.1 and
\* "1.0" gives 1.0.
C28_ValidOpacity ==
    result # <<>> =>
        LET v == float(given)
            valid == v.k = "num" /\ 10 <= v.x /\ v.x <= 100
        IN  /\ result.k \in {"num", "None"}
            /\ valid => result = v
            /\ ~valid => result = NoFloat
            /\ given = <<"0", ".", "0", "5">> => result = NoFloat
            /\ given = <<"0", ".", "1">> => result = Num(10)
            /\ given = <<"1", ".", "0">> => result = Num(100)
            /\ given = <<"1", ".", "1">> => result = NoFloat
            /\ given = <<"a", "b", "c">> => result = NoFloat

C28_Witness ==
    /\ given = <<"0", ".", "1">>
    /\ result = Num(10)

\* C29: for every name, sanitize_filename returns a name made of letters,
\* digits, "-", "_" and "." only, that ends with .pdf in whatever case and
\* is not empty; it returns document.pdf when nothing, or nothing but the
\* extension, is left of the name; and sanitizing its result changes nothing.
C29_SanitizedFilename ==
    result # <<>> =>
        LET kept == KeepSafe(basename(given))
        IN  /\ \A i \in DOMAIN result.name : result.name[i] \in safe_chars
            /\ EndsWith(lower(result.name), DotPdf)
            /\ result.name # <<>>
            /\ (kept = <<>> \/ lower(kept) = DotPdf) => result.name = DocumentPdf
            /\ sanitize_filename(result.name) = result.name

\* C30: the reply a handler sends when ingestion, merge, rename or
\* watermark failed carries the beginning of the exception's message and at
\* most 200 characters of it, in every handler that reports the error.
C30_ErrorReplyTruncated ==
    result # <<>> =>
        /\ Len(result.shown) <= 200
        /\ result.shown = SubSeq(given.e, 1, Len(result.shown))

\* C31: whatever goes wrong while an event is handled, get_file failing
\* included, the handler catches it and replies: no event ends with the
\* exception raised out of the handler.
C31_ErrorsCaught ==
    last.ev # "none" => last.reply # "raised"

\* An upload that passes validation: a .pdf name, a declared size within
\* MAX_FILE_SIZE, and the PDF signature at the start of its bytes
ValidUpload(upload) ==
    /\ upload.pdf_name
    /\ upload.file_size <= MAX_FILE_SIZE
    /\ upload.signed

\* C32: an upload with a name that is no .pdf name, with a declared size
\* over MAX_FILE_SIZE or without the PDF signature is turned away by
\* handle_document: no session names its file and no merge takes it.
C32_ValidatedAtBoundary ==
    /\ \A c \in DOMAIN sessions : \A path \in PathsIn(sessions[c]) :
          path \in DOMAIN given => ValidUpload(given[path])
    /\ \A i \in DOMAIN last.merged : \A path \in Range(last.merged[i]) :
          path \in DOMAIN given => ValidUpload(given[path])

\* C33: when the runs of handle_merge_file for one chat interleave, every
\* file uploaded ends up in data.files: once no run is under way the list
\* holds each uploaded file, and is as long as the number of uploads.
C33_NoUploadLost ==
    (\A t \in Threads : th[t].pc \in {"idle", "done"}) =>
        LET held == HeldFiles(sessions[ConcChat])
        IN  /\ Range(held) = 1..nextPath
            /\ Len(held) = nextPath

\* C34: while a chat stays in merge mode, an event other than /start,
\* /cancel, clear or a merge that was sent leaves every file held in
\* data.files, in place: the list only grows. The Add More PDFs button,
\* whose callback is merge, is such an event.
C34_HeldFilesOnlyGrow ==
    [][\A c \in DOMAIN sessions :
          (/\ sessions[c].state = UPLOADING_MERGE
           /\ c \in DOMAIN sessions'
           /\ sessions'[c].state = UPLOADING_MERGE
           /\ last'.ev \notin {"start", "cancel", "clear"}
           /\ ~(last'.ev = "confirm_merge" /\ last'.sendFile = 1))
          => LET before == HeldFiles(sessions[c])
                 after == HeldFiles(sessions'[c])
             IN  /\ Len(before) <= Len(after)
                 /\ SubSeq(after, 1, Len(before)) = before]_vars

\* C35: every merge_pdfs and add_watermark call of bot.py takes only files
\* uploaded, and a watermark text and position given, after the operation
\* under way was selected; nothing an earlier operation left in the session
\* data is used.
C35_NoStaleParameters ==
    /\ \A i \in DOMAIN last.merged : Range(last.merged[i]) \subseteq Range(result)
    /\ \A i \in DOMAIN last.stamped :
          /\ last.stamped[i].input_path \in Range(result)
          /\ {"watermark_text", "position"} \subseteq Range(given)

\* The states in which a watermark is being assembled after the upload
WatermarkWaiting ==
    {WAITING_WATERMARK_TEXT, WAITING_WATERMARK_POSITION, WAITING_WATERMARK_OPACITY}

\* C36: merge_pdfs is called only for a session in UPLOADING_MERGE,
\* add_watermark only for a session in a watermark waiting state, and a
\* position or opacity callback met in any other state changes neither the
\* session data nor the files.
C36_DispatchedOnState ==
    /\ last.merged # <<>> => last.pre.state = UPLOADING_MERGE
    /\ last.stamped # <<>> => last.pre.state \in WatermarkWaiting
    /\ (last.ev \in {"pos", "op"} /\ last.had /\ last.pre.state \notin WatermarkWaiting)
          => /\ sessions[last.chat].data = last.pre.data
             /\ last.out = 0

\* C37: for every name, is_safe_filename accepts what sanitize_filename
\* returns: the sanitized name holds none of the rejected sequences, ".."
\* among them.
C37_SanitizedIsSafe ==
    result # <<>> => is_safe_filename(result.name)

\* C38: for every text, nan and inf and texts that are no number among
\* them, handle_watermark_custom_opacity goes on to process_watermark
\* exactly when is_valid_opacity returns a value, and passes that value.
C38_EngineAgreesWithValidator ==
    last.ev = "text" =>
        /\ last.stamped # <<>> <=> result.k = "num"
        /\ \A i \in DOMAIN last.stamped : last.stamped[i].opacity = result

\* C39: within the TTL, get_session gives the same answer from the two
\* stores after any sequence of create_session, update_session,
\* clear_session and get_session calls: a session from both or from
\* neither, with the same state and the same data.
C39_StoresInterchangeable ==
    (call.op = "get" /\ given = <<>>) =>
        /\ call.had = call.memHad
        /\ call.doc.state = call.memDoc.state
        /\ call.doc.data = call.memDoc.data

C39_Witness ==
    /\ call.op = "get"
    /\ given = <<>>
    /\ call.had
    /\ call.doc.created_at < call.doc.updated_at
    /\ DOMAIN call.doc.data = {"file_path", "position"}

====
